---- MODULE Spec2Model ----
(***************************************************************************)
(* Product search platform: the search engine (searchEngine.ts) and the    *)
(* CSV record parser (csvParser.ts).                                       *)
(*                                                                         *)
(* Strings are sequences of one-character strings, so that normalisation,  *)
(* tokenisation, substring tests and CSV quoting are computed character by *)
(* character.  Scores are kept in tenths (0.5 is 5), which makes every     *)
(* score of the engine an integer.  An optional value (undefined in the    *)
(* source) is a sequence of length 0, a present one a sequence of length 1.*)
(***************************************************************************)
EXTENDS Integers, Sequences, FiniteSets, TLC

VARIABLES
  products,   \* the record collection searchProducts is given
  options,    \* the options of the call: query, filters, sortBy, limit
  filtered,   \* the local list "filtered" of the call
  results,    \* the list the call returned
  searched,   \* whether the call was made
  scoreArgs,  \* the arguments of a call of scoreField: tokens, field, weight
  scoreValue, \* what that call returned
  csvRows,    \* the data rows, cell by cell, that the input text was written from
  csvBlanks,  \* how many blank rows the input text was written with
  csvText,    \* the text parseCSV is given
  observer,   \* whether parseCSV is given a progress callback
  parseLines, \* the local list "lines" of parseCSV
  parseValues, \* the local list "values" of each data row of parseCSV
  parseResult, \* what parseCSV returned
  progressCalls, \* the calls of the progress callback, in order
  cachedParseResult, \* the module variable cachedParseResult
  parsed,     \* whether parseCSV was called
  pairArgs,   \* two records and the tokens calculateScore is called with
  pairScores, \* what the two calls of calculateScore returned
  sidebarFilters, \* FilterSidebar: the filters prop, the value last given to onFiltersChange
  sidebarOp,  \* FilterSidebar: the handler that ran last
  typedQuery, \* useProductSearch: the state "query"
  debouncedQuery, \* useProductSearch: the state "debouncedQuery"
  timers,     \* useProductSearch: the query values of the pending debounce timers
  edits,      \* how many times the typed query was changed
  hookSortBy, \* useProductSearch: the state "sortBy"
  cartItems,  \* SearchStore: the state "cartItems"
  storage,    \* localStorage: the item 'healf-cart'
  mountStep,  \* SearchStore: how far the mount of the page has come
  queuedCart, \* SearchStore: the cart given to setCartItems and not yet rendered
  storedAtMount, \* what localStorage held when the page was opened
  cartOp,     \* the cart handler that ran last, and its argument
  urlState,   \* SearchStore: the search state the URL is written for
  urlParams,  \* the parameters of the URL
  restored,   \* the search state a fresh session has after reading the URL
  callLog,    \* the calls of parseCSV and clearCachedParseResult made so far
  displayedItems, \* SearchStore: the state "displayedItems"
  pageOp,     \* SearchStore: the handler that ran last, and what it found
  resultCount, \* SearchStore: results.length
  isSearching, \* useProductSearch: the state "isSearching"
  matchArgs,  \* a record and the tokens getMatches and calculateScore are called with
  matchOutcome \* what getMatches returned and what each field added to the score

searchVars == <<products, options, filtered, results, searched>>

scoreVars == <<scoreArgs, scoreValue>>

parseVars == <<csvRows, csvBlanks, csvText, observer, parseLines, parseValues, parseResult, progressCalls, cachedParseResult, parsed>>

pairVars == <<pairArgs, pairScores>>

filterVars == <<sidebarFilters, sidebarOp>>

hookVars == <<typedQuery, debouncedQuery, timers, edits, hookSortBy>>

cartVars == <<cartItems, storage, mountStep, queuedCart, storedAtMount, cartOp>>

urlVars == <<urlState, urlParams, restored>>

cacheVars == <<callLog>>

pageVars == <<displayedItems, pageOp, resultCount, isSearching>>

matchVars == <<matchArgs, matchOutcome>>

uiVars == <<filterVars, hookVars, cartVars, urlVars, cacheVars, pageVars, matchVars>>

vars == <<searchVars, scoreVars, parseVars, pairVars, uiVars>>

(***************************************************************************)
(* Bounds of the model                                                     *)
(***************************************************************************)
MaxProducts == 3

MaxRows == 2

MaxShortRows == 12

MaxEdits == 3

MaxQuantity == 3

MaxCalls == 3

(***************************************************************************)
(* Option values                                                           *)
(***************************************************************************)
None == <<>>

Some(x) == <<x>>

IsSome(o) == Len(o) > 0

Min(S) == CHOOSE x \in S : \A y \in S : x <= y

Max(S) == CHOOSE x \in S : \A y \in S : x >= y

(***************************************************************************)
(* Characters                                                              *)
(***************************************************************************)
UpperChars == <<"A", "B", "C", "D", "E", "F", "G", "H", "I", "J", "K", "L", "M", "N", "O", "P", "Q", "R", "S", "T", "U", "V", "W", "X", "Y", "Z">>

LowerChars == <<"a", "b", "c", "d", "e", "f", "g", "h", "i", "j", "k", "l", "m", "n", "o", "p", "q", "r", "s", "t", "u", "v", "w", "x", "y", "z">>

DigitChars == <<"0", "1", "2", "3", "4", "5", "6", "7", "8", "9">>

Range(s) == {s[i] : i \in DOMAIN s}

UpperSet == Range(UpperChars)

LowerSet == Range(LowerChars)

DigitSet == Range(DigitChars)

LowerOf == [c \in UpperSet |-> LowerChars[CHOOSE i \in DOMAIN UpperChars : UpperChars[i] = c]]

IsSpace(c) == c \in {" ", "\t", "\n", "\r"}

toLowerChar(c) == IF c \in UpperSet THEN LowerOf[c] ELSE c

toLowerCase(s) == [i \in DOMAIN s |-> toLowerChar(s[i])]

\* String.prototype.trim
trim(s) ==
  LET idx == {i \in DOMAIN s : ~IsSpace(s[i])}
  IN IF idx = {} THEN <<>> ELSE SubSeq(s, Min(idx), Max(idx))

\* replace(/\s+/g, ' '): every maximal run of whitespace becomes one space
collapseWhitespace(s) ==
  LET marked == [i \in DOMAIN s |-> [ch |-> s[i], inRun |-> i > 1 /\ IsSpace(s[i - 1])]]
      kept == SelectSeq(marked, LAMBDA m : ~(IsSpace(m.ch) /\ m.inRun))
  IN [i \in DOMAIN kept |-> IF IsSpace(kept[i].ch) THEN " " ELSE kept[i].ch]

\* split(/\s+/): the pieces between the whitespace runs (empty pieces kept)
splitWhitespace(s) ==
  LET F[i \in 0..Len(s)] ==
        IF i = 0 THEN [done |-> <<>>, cur |-> <<>>]
        ELSE LET st == F[i - 1]
             IN IF IsSpace(s[i])
                THEN (IF i > 1 /\ IsSpace(s[i - 1]) THEN st
                      ELSE [done |-> Append(st.done, st.cur), cur |-> <<>>])
                ELSE [done |-> st.done, cur |-> Append(st.cur, s[i])]
      last == F[Len(s)]
  IN Append(last.done, last.cur)

startsWith(s, p) == Len(p) <= Len(s) /\ SubSeq(s, 1, Len(p)) = p

endsWith(s, p) == Len(p) <= Len(s) /\ SubSeq(s, Len(s) - Len(p) + 1, Len(s)) = p

includes(s, p) == \E i \in 0..(Len(s) - Len(p)) : SubSeq(s, i + 1, i + Len(p)) = p

\* replace(/[^a-z0-9]/g, '')
stripNonAlnum(s) == SelectSeq(s, LAMBDA c : c \in LowerSet \/ c \in DigitSet)

\* Array.prototype.join(' ')
RECURSIVE joinSpace(_)
joinSpace(list) ==
  IF list = <<>> THEN <<>>
  ELSE IF Len(list) = 1 THEN list[1]
  ELSE list[1] \o <<" ">> \o joinSpace(Tail(list))

(***************************************************************************)
(* searchEngine.ts: configuration                                          *)
(***************************************************************************)
\* FIELD_WEIGHTS, in tenths: title 3.0, vendor 2.0, description 1.0, tags 0.5
FIELD_WEIGHTS == [title |-> 30, vendor |-> 20, description |-> 10, tags |-> 5]

\* MINIMUM_SCORE = 0.1.  Scores are sums of rung * weight with weights that are
\* multiples of 0.5, so score >= 0.1 is score-in-tenths >= 1.
MINIMUM_SCORE == 1

(***************************************************************************)
(* searchEngine.ts: normalisation and tokenisation                         *)
(***************************************************************************)
normalize(text) == IF text = <<>> THEN <<>> ELSE collapseWhitespace(trim(toLowerCase(text)))

normalizeForFuzzy(text) == stripNonAlnum(normalize(text))

\* The loop of isSubsequence over haystack[lo..hi], entered with i characters
\* of the needle matched: the number matched when it ends.  The range is
\* walked in two halves, left to right; nothing changes once the needle is
\* matched whole.
RECURSIVE subsequenceLoop(_, _, _, _, _)
subsequenceLoop(needle, haystack, i, lo, hi) ==
  IF lo > hi THEN i
  ELSE IF lo = hi
       THEN (IF i < Len(needle) /\ needle[i + 1] = haystack[lo] THEN i + 1 ELSE i)
  ELSE LET mid == (lo + hi) \div 2
           left == subsequenceLoop(needle, haystack, i, lo, mid)
       IN IF left >= Len(needle) THEN left ELSE subsequenceLoop(needle, haystack, left, mid + 1, hi)

isSubsequence(needle, haystack) ==
  IF needle = <<>> THEN FALSE
  ELSE subsequenceLoop(needle, haystack, 0, 1, Len(haystack)) = Len(needle)

tokenize(query) == SelectSeq(splitWhitespace(normalize(query)), LAMBDA t : Len(t) > 0)

(***************************************************************************)
(* searchEngine.ts: scoreField                                             *)
(***************************************************************************)
\* The body of the loop over the tokens: what one token adds to the score.
\* a ladder whose rules add up instead of the first one winning
scoreToken_additive(token, normalized, normalizedFuzzy, weight) ==
  (IF normalized = token THEN 10 * weight ELSE 0)
  + (IF startsWith(normalized, token) THEN 5 * weight ELSE 0)
  + (IF includes(normalized, token) THEN 2 * weight ELSE 0)

\* the fuzzy rule is tried for a token of any length
scoreToken_shortFuzzy(token, normalized, normalizedFuzzy, weight) ==
  IF includes(normalized, token) THEN 2 * weight
  ELSE IF normalizedFuzzy # <<>> /\ stripNonAlnum(token) # <<>> /\ isSubsequence(stripNonAlnum(token), normalizedFuzzy)
       THEN 1 * weight
  ELSE 0

scoreToken(token, normalized, normalizedFuzzy, weight) ==
  LET fuzzyToken == IF Len(token) >= 3 THEN stripNonAlnum(token) ELSE <<>>
  IN IF normalized = token THEN 10 * weight
     ELSE IF startsWith(normalized, token) THEN 5 * weight
     ELSE IF \/ includes(normalized, <<" ">> \o token \o <<" ">>)
             \/ startsWith(normalized, token \o <<" ">>)
             \/ endsWith(normalized, <<" ">> \o token)
          THEN 4 * weight
     ELSE IF includes(normalized, token) THEN 2 * weight
     ELSE IF normalizedFuzzy # <<>> /\ fuzzyToken # <<>> /\ isSubsequence(fuzzyToken, normalizedFuzzy)
          THEN 1 * weight
     ELSE 0

scoreField(tokens, field, weight) ==
  IF field = <<>> \/ tokens = <<>> THEN 0
  ELSE LET normalized == normalize(field)
           normalizedFuzzy == IF Len(normalized) <= 120 THEN normalizeForFuzzy(field) ELSE <<>>
           F[k \in 0..Len(tokens)] ==
             IF k = 0 THEN 0
             ELSE F[k - 1] + scoreToken(tokens[k], normalized, normalizedFuzzy, weight)
       IN F[Len(tokens)]

(***************************************************************************)
(* searchEngine.ts: stripHtml, calculateScore, getMatches                  *)
(***************************************************************************)
\* replace(/<[^>]*>/g, ' '): a '<' with a later '>' is replaced, up to the
\* first such '>', by one space; a '<' with no later '>' is kept.
replaceTags(html) ==
  LET F[i \in 0..Len(html)] ==
        IF i = 0 THEN [out |-> <<>>, skip |-> 0]
        ELSE LET st == F[i - 1]
             IN IF i <= st.skip THEN st
                ELSE IF html[i] = "<" /\ \E j \in (i + 1)..Len(html) : html[j] = ">"
                     THEN [out |-> Append(st.out, " "),
                           skip |-> Min({j \in (i + 1)..Len(html) : html[j] = ">"})]
                     ELSE [out |-> Append(st.out, html[i]), skip |-> st.skip]
  IN F[Len(html)].out

stripHtml(html) == trim(collapseWhitespace(replaceTags(html)))

\* product.description || product.bodyHtml || ''
descriptionText(product) == IF product.description # <<>> THEN product.description ELSE product.bodyHtml

\* every field with the weight of the description
calculateScore_unweighted(product, tokens) ==
  IF tokens = <<>> THEN 0
  ELSE scoreField(tokens, product.title, FIELD_WEIGHTS.description)
       + scoreField(tokens, product.vendor, FIELD_WEIGHTS.description)
       + scoreField(tokens, stripHtml(descriptionText(product)), FIELD_WEIGHTS.description)
       + scoreField(tokens, joinSpace(product.tags), FIELD_WEIGHTS.description)

calculateScore(product, tokens) ==
  IF tokens = <<>> THEN 0
  ELSE scoreField(tokens, product.title, FIELD_WEIGHTS.title)
       + scoreField(tokens, product.vendor, FIELD_WEIGHTS.vendor)
       + scoreField(tokens, stripHtml(descriptionText(product)), FIELD_WEIGHTS.description)
       + scoreField(tokens, joinSpace(product.tags), FIELD_WEIGHTS.tags)

someToken(tokens, text) == \E k \in DOMAIN tokens : includes(text, tokens[k])

\* Mutant of getMatches: the description is tested as stored, without the
\* fallback to the HTML body.
getMatches_storedDescription(product, tokens) ==
  (IF someToken(tokens, normalize(product.title)) THEN <<"title">> ELSE <<>>)
  \o (IF someToken(tokens, normalize(product.vendor)) THEN <<"vendor">> ELSE <<>>)
  \o (IF someToken(tokens, normalize(stripHtml(product.description))) THEN <<"description">> ELSE <<>>)
  \o (IF \E k \in DOMAIN tokens : \E g \in DOMAIN product.tags : includes(normalize(product.tags[g]), tokens[k])
      THEN <<"tags">> ELSE <<>>)

\* a field is listed when the letters of a token are scattered in it
getMatches_scattered(product, tokens) ==
  LET hit(text) == \E k \in DOMAIN tokens : isSubsequence(stripNonAlnum(tokens[k]), stripNonAlnum(normalize(text)))
  IN (IF hit(product.title) THEN <<"title">> ELSE <<>>)
     \o (IF hit(product.vendor) THEN <<"vendor">> ELSE <<>>)
     \o (IF hit(stripHtml(descriptionText(product))) THEN <<"description">> ELSE <<>>)
     \o (IF \E g \in DOMAIN product.tags : hit(product.tags[g]) THEN <<"tags">> ELSE <<>>)

getMatches(product, tokens) ==
  (IF someToken(tokens, normalize(product.title)) THEN <<"title">> ELSE <<>>)
  \o (IF someToken(tokens, normalize(product.vendor)) THEN <<"vendor">> ELSE <<>>)
  \o (IF someToken(tokens, normalize(stripHtml(descriptionText(product)))) THEN <<"description">> ELSE <<>>)
  \o (IF \E k \in DOMAIN tokens : \E g \in DOMAIN product.tags : includes(normalize(product.tags[g]), tokens[k])
      THEN <<"tags">> ELSE <<>>)

(***************************************************************************)
(* searchEngine.ts: applyFilters                                           *)
(***************************************************************************)
\* Mutant of applyFilters: the upper end of the price range is exclusive.
applyFilters_exclusiveMax(list, filters) ==
  IF ~IsSome(filters) THEN list
  ELSE LET f == filters[1]
           byVendor == IF IsSome(f.vendors) /\ Len(f.vendors[1]) > 0
                       THEN SelectSeq(list, LAMBDA p : p.vendor \in Range(f.vendors[1]))
                       ELSE list
           byPrice == IF IsSome(f.priceRange)
                      THEN SelectSeq(byVendor, LAMBDA p : p.price.amount >= f.priceRange[1].min /\ p.price.amount < f.priceRange[1].max)
                      ELSE byVendor
           byStock == IF IsSome(f.inStock) /\ f.inStock[1]
                      THEN SelectSeq(byPrice, LAMBDA p : p.inventory > 0)
                      ELSE byPrice
       IN byStock

applyFilters(list, filters) ==
  IF ~IsSome(filters) THEN list
  ELSE LET f == filters[1]
           byVendor == IF IsSome(f.vendors) /\ Len(f.vendors[1]) > 0
                       THEN SelectSeq(list, LAMBDA p : p.vendor \in Range(f.vendors[1]))
                       ELSE list
           byPrice == IF IsSome(f.priceRange)
                      THEN SelectSeq(byVendor, LAMBDA p : p.price.amount >= f.priceRange[1].min /\ p.price.amount <= f.priceRange[1].max)
                      ELSE byVendor
           byStock == IF IsSome(f.inStock) /\ f.inStock[1]
                      THEN SelectSeq(byPrice, LAMBDA p : p.inventory > 0)
                      ELSE byPrice
       IN byStock

(***************************************************************************)
(* searchEngine.ts: sortResults                                            *)
(***************************************************************************)
\* new Date(createdAt).getTime(), in days since the epoch; None is NaN (the
\* parser stores '' for a row without CREATED_AT, and new Date('') is invalid).
getTime(createdAt) ==
  CASE createdAt = "2024-01-01T00:00:00.000Z" -> Some(19723)
    [] createdAt = "2024-01-02T00:00:00.000Z" -> Some(19724)
    [] OTHER -> None

\* The collation key of String.prototype.localeCompare (root collation): spaces
\* before punctuation before digits before letters, letters first by the letter
\* and only then by case, lower case first.
primaryKey(c) ==
  LET l == toLowerChar(c)
  IN IF IsSpace(c) THEN 0
     ELSE IF c \in DigitSet THEN 1 + (CHOOSE i \in DOMAIN DigitChars : DigitChars[i] = c)
     ELSE IF l \in LowerSet THEN 11 + (CHOOSE i \in DOMAIN LowerChars : LowerChars[i] = l)
     ELSE 1

caseKey(c) == IF c \in UpperSet THEN 1 ELSE 0

\* -1, 0 or 1: the order of two sequences of integers, item by item
lexCompare(x, y) ==
  LET diff == {i \in 1..Min({Len(x), Len(y)}) : x[i] # y[i]}
  IN IF diff # {} THEN (IF x[Min(diff)] < y[Min(diff)] THEN -1 ELSE 1)
     ELSE IF Len(x) < Len(y) THEN -1
     ELSE IF Len(x) > Len(y) THEN 1
     ELSE 0

localeCompare(a, b) ==
  LET primary == lexCompare([i \in DOMAIN a |-> primaryKey(a[i])], [i \in DOMAIN b |-> primaryKey(b[i])])
  IN IF primary # 0 THEN primary
     ELSE lexCompare([i \in DOMAIN a |-> caseKey(a[i])], [i \in DOMAIN b |-> caseKey(b[i])])

\* b.rating || 0
ratingOrZero(r) == IF IsSome(r.rating) THEN r.rating[1] ELSE 0

\* (a, b) => new Date(b.createdAt).getTime() - new Date(a.createdAt).getTime();
\* a NaN result is read as +0 by Array.prototype.sort.
compareRecent(a, b) ==
  IF IsSome(getTime(a.createdAt)) /\ IsSome(getTime(b.createdAt))
  THEN getTime(b.createdAt)[1] - getTime(a.createdAt)[1]
  ELSE 0

\* The comparator sortResults passes to sort for each sortBy.
compareFn(sortBy, a, b) ==
  CASE sortBy = "recent-desc" -> compareRecent(a, b)
    [] sortBy = "price-asc" -> a.price.amount - b.price.amount
    [] sortBy = "price-desc" -> b.price.amount - a.price.amount
    [] sortBy = "rating-desc" -> ratingOrZero(b) - ratingOrZero(a)
    [] sortBy = "vendor-asc" -> localeCompare(a.vendor, b.vendor)
    [] sortBy = "vendor-desc" -> localeCompare(b.vendor, a.vendor)
    [] OTHER -> compareRecent(a, b)

\* Array.prototype.sort with a consistent comparator: the stable order.  cmp
\* is the comparator as a table of its values on the elements of the list.
stableSort(list, cmp) ==
  LET insert(sorted, x) ==
        LET later == {j \in DOMAIN sorted : cmp[x, sorted[j]] < 0}
            pos == IF later = {} THEN Len(sorted) + 1 ELSE Min(later)
        IN SubSeq(sorted, 1, pos - 1) \o <<x>> \o SubSeq(sorted, pos, Len(sorted))
      F[k \in 0..Len(list)] == IF k = 0 THEN <<>> ELSE LET sorted == F[k - 1] IN insert(sorted, list[k])
  IN F[Len(list)]

\* ECMAScript: a comparator is consistent on the elements when "equal" and
\* "before" are transitive on them; otherwise the order sort leaves is
\* implementation-defined.
consistentComparator(list, cmp) ==
  \A i, j, k \in DOMAIN list :
    /\ (cmp[list[i], list[j]] = 0 /\ cmp[list[j], list[k]] = 0) => cmp[list[i], list[k]] = 0
    /\ (cmp[list[i], list[j]] < 0 /\ cmp[list[j], list[k]] < 0) => cmp[list[i], list[k]] < 0
    /\ (cmp[list[i], list[j]] < 0 /\ cmp[list[j], list[k]] = 0) => cmp[list[i], list[k]] < 0
    /\ (cmp[list[i], list[j]] = 0 /\ cmp[list[j], list[k]] < 0) => cmp[list[i], list[k]] < 0

permutationsOf(list) == {[i \in DOMAIN list |-> list[p[i]]] : p \in Permutations(DOMAIN list)}

\* Every list the sort may leave: the stable order when the comparator is
\* consistent, any arrangement of the elements when it is not.
sortOutcomes(list, cmp) ==
  IF consistentComparator(list, cmp) THEN {stableSort(list, cmp)} ELSE permutationsOf(list)

\* sortBy is the optional parameter: absent, it is 'recent-desc'.
sortResults(list, sortBy) ==
  LET by == IF IsSome(sortBy) THEN sortBy[1] ELSE "recent-desc"
  IN sortOutcomes(list, [a \in Range(list), b \in Range(list) |-> compareFn(by, a, b)])

(***************************************************************************)
(* searchEngine.ts: searchProducts                                         *)
(***************************************************************************)
\* Array.prototype.slice(0, limit) when limit is a number, the list otherwise
\* one element more than the limit is kept
sliceLimit_oneMore(list, limit) ==
  IF ~IsSome(limit) THEN list ELSE SubSeq(list, 1, Min({limit[1] + 1, Len(list)}))

sliceLimit(list, limit) ==
  IF ~IsSome(limit) THEN list
  ELSE LET n == limit[1]
           end == IF n < 0 THEN Max({Len(list) + n, 0}) ELSE Min({n, Len(list)})
       IN SubSeq(list, 1, end)

asResult(p, score, matched) == p @@ [relevanceScore |-> score, matchedFields |-> matched]

\* !sortBy: undefined or the empty string
sortByAbsent(sortBy) == ~IsSome(sortBy) \/ sortBy[1] = ""

\* Mutant of scoredResults: the minimum score is not applied.
scoredResults_noThreshold(kept, tokens) ==
  [k \in DOMAIN kept |-> asResult(kept[k], calculateScore(kept[k], tokens), getMatches(kept[k], tokens))]

\* lines 196-208: the scored records at or above the minimum, in input order
scoredResults(kept, tokens) ==
  LET F[k \in 0..Len(kept)] ==
        IF k = 0 THEN <<>>
        ELSE LET out == F[k - 1]
                 score == calculateScore(kept[k], tokens)
             IN IF score >= MINIMUM_SCORE
                THEN Append(out, asResult(kept[k], score, getMatches(kept[k], tokens)))
                ELSE out
  IN F[Len(kept)]

\* Mutant of sortByRelevance: the scored records are left in input order.
sortByRelevance_unsorted(list) == {list}

\* line 211: results.sort((a, b) => b.relevanceScore - a.relevanceScore)
sortByRelevance(list) == sortOutcomes(list, [a \in Range(list), b \in Range(list) |-> b.relevanceScore - a.relevanceScore])

\* Mutant of searchProducts: with no sortBy a blank query is answered in
\* recent-desc order.
searchProducts_blankRecent(list, opts) ==
  LET kept == applyFilters(list, opts.filters)
  IN IF opts.query = <<>> \/ trim(opts.query) = <<>>
     THEN LET zero == [k \in DOMAIN kept |-> asResult(kept[k], 0, <<>>)]
          IN {sliceLimit(sorted, opts.limit) :
                sorted \in sortResults(zero, IF sortByAbsent(opts.sortBy) THEN Some("recent-desc") ELSE opts.sortBy)}
     ELSE LET tokens == tokenize(opts.query)
          IN IF tokens = <<>> THEN {<<>>}
             ELSE LET byRelevance == sortByRelevance(scoredResults(kept, tokens))
                  IN IF sortByAbsent(opts.sortBy)
                     THEN {sliceLimit(r, opts.limit) : r \in byRelevance}
                     ELSE UNION {{sliceLimit(sorted, opts.limit) : sorted \in sortResults(r, opts.sortBy)} : r \in byRelevance}

\* Mutant of searchProducts: an explicit sortBy sorts every filtered record,
\* scored or not.
searchProducts_sortsAll(list, opts) ==
  LET kept == applyFilters(list, opts.filters)
  IN IF opts.query = <<>> \/ trim(opts.query) = <<>>
     THEN LET zero == [k \in DOMAIN kept |-> asResult(kept[k], 0, <<>>)]
          IN {sliceLimit(sorted, opts.limit) :
                sorted \in sortResults(zero, IF sortByAbsent(opts.sortBy) THEN Some("vendor-asc") ELSE opts.sortBy)}
     ELSE LET tokens == tokenize(opts.query)
          IN IF tokens = <<>> THEN {<<>>}
             ELSE IF sortByAbsent(opts.sortBy)
                  THEN {sliceLimit(r, opts.limit) : r \in sortByRelevance(scoredResults(kept, tokens))}
                  ELSE {sliceLimit(sorted, opts.limit) :
                          sorted \in sortResults([k \in DOMAIN kept |-> asResult(kept[k], calculateScore(kept[k], tokens), getMatches(kept[k], tokens))], opts.sortBy)}

\* The set of lists a call may return (one list, unless a sort inside it was
\* given an inconsistent comparator).
searchProducts(list, opts) ==
  LET kept == applyFilters(list, opts.filters)
  IN IF opts.query = <<>> \/ trim(opts.query) = <<>>
     THEN LET zero == [k \in DOMAIN kept |-> asResult(kept[k], 0, <<>>)]
          IN {sliceLimit(sorted, opts.limit) :
                sorted \in sortResults(zero, IF sortByAbsent(opts.sortBy) THEN Some("vendor-asc") ELSE opts.sortBy)}
     ELSE LET tokens == tokenize(opts.query)
          IN IF tokens = <<>> THEN {<<>>}
             ELSE LET byRelevance == sortByRelevance(scoredResults(kept, tokens))
                  IN IF sortByAbsent(opts.sortBy)
                     THEN {sliceLimit(r, opts.limit) : r \in byRelevance}
                     ELSE UNION {{sliceLimit(sorted, opts.limit) : sorted \in sortResults(r, opts.sortBy)} : r \in byRelevance}

(***************************************************************************)
(* The records and the options the searches are run on.  For the query     *)
(* "gel": record 1 has the token as a word of its title and of its vendor, *)
(* record 2 has it as its whole description and nowhere else (the shape of *)
(* the two records of searchEngine.test.ts), record 3 is reached only by a *)
(* fuzzy match in its tags, record 4 holds it inside a longer word of      *)
(* title and vendor.  Record 3 comes from a row without CREATED_AT and     *)
(* without DESCRIPTION, so its description is read from its HTML body.     *)
(***************************************************************************)
TitleGelTxLab == <<"G", "e", "l", " ", "T", "x", " ", "L", "a", "b">>

VendorTxGel == <<"T", "x", " ", "G", "e", "l">>

DescPure == <<"P", "u", "r", "e">>

BodyPure == <<"<", "p", ">", "P", "u", "r", "e", "<", "/", "p", ">">>

TagWhey == <<"w", "h", "e", "y">>

TitleZenCaps == <<"Z", "e", "n", " ", "C", "a", "p", "s">>

VendorGenCo == <<"G", "e", "n", " ", "C", "o">>

DescGel == <<"G", "e", "l">>

TagMix == <<"m", "i", "x">>

TitleZinc == <<"Z", "i", "n", "c">>

VendorGenCoLower == <<"g", "e", "n", " ", "c", "o">>

BodyZinc == <<"<", "b", ">", "Z", "i", "n", "c", "<", "/", "b", ">", "t", "a", "b">>

TagGEl == <<"g", "-", "e", "l">>

TagLAb == <<"l", "-", "a", "b">>

TitleNugel == <<"N", "u", "g", "e", "l">>

VendorNugel == <<"N", "u", "g", "e", "l">>

DescDayMix == <<"D", "a", "y", " ", " ", "m", "i", "x">>

QueryTxLab == <<"T", "x", " ", "L", "a", "b">>

QueryGel == <<"g", "e", "l">>

QueryGelZinc == <<" ", "G", "E", "L", " ", " ", "z", "i", "n", "c">>

QueryBlank == <<" ", " ">>

Product1 ==
  [id |-> "1", title |-> TitleGelTxLab, vendor |-> VendorTxGel, description |-> DescPure,
   bodyHtml |-> BodyPure, tags |-> <<TagWhey>>, status |-> "ACTIVE",
   createdAt |-> "2024-01-02T00:00:00.000Z", price |-> [amount |-> 40, currency |-> "GBP"],
   inventory |-> 10, rating |-> None]

Product2 ==
  [id |-> "2", title |-> TitleZenCaps, vendor |-> VendorGenCo, description |-> DescGel,
   bodyHtml |-> <<>>, tags |-> <<TagMix>>, status |-> "ACTIVE",
   createdAt |-> "2024-01-01T00:00:00.000Z", price |-> [amount |-> 20, currency |-> "GBP"],
   inventory |-> 5, rating |-> None]

Product3 ==
  [id |-> "3", title |-> TitleZinc, vendor |-> VendorGenCoLower, description |-> <<>>,
   bodyHtml |-> BodyZinc, tags |-> <<TagGEl, TagLAb>>, status |-> "ACTIVE",
   createdAt |-> "", price |-> [amount |-> 20, currency |-> "GBP"],
   inventory |-> 0, rating |-> Some(4)]

Product4 ==
  [id |-> "4", title |-> TitleNugel, vendor |-> VendorNugel, description |-> DescDayMix,
   bodyHtml |-> <<>>, tags |-> <<>>, status |-> "ACTIVE",
   createdAt |-> "2024-01-02T00:00:00.000Z", price |-> [amount |-> 30, currency |-> "GBP"],
   inventory |-> 3, rating |-> Some(4)]

ProductPool == {Product1, Product2, Product3, Product4}

\* The collections: up to MaxProducts distinct records, in every order
Collections ==
  UNION {{c \in [1..n -> ProductPool] : \A i, j \in 1..n : i # j => c[i] # c[j]} : n \in 0..MaxProducts}

Queries == {<<>>, QueryBlank, QueryTxLab, QueryGel, QueryGelZinc}

noFilter == [vendors |-> None, priceRange |-> None, inStock |-> None]

\* {vendors: [], priceRange: {min: 0, max: Infinity}, inStock: false}
\* (Infinity is a number above every price)
FilterIdentity == [vendors |-> Some(<<>>), priceRange |-> Some([min |-> 0, max |-> 1000000]), inStock |-> Some(FALSE)]

FilterVendor == [noFilter EXCEPT !.vendors = Some(<<VendorGenCo>>)]

FilterPrice == [noFilter EXCEPT !.priceRange = Some([min |-> 20, max |-> 30])]

FilterStock == [noFilter EXCEPT !.inStock = Some(TRUE)]

FilterAll == [vendors |-> Some(<<VendorGenCo, VendorNugel>>), priceRange |-> Some([min |-> 20, max |-> 30]), inStock |-> Some(TRUE)]

FilterValues == {None, Some(FilterIdentity), Some(FilterVendor), Some(FilterPrice), Some(FilterStock), Some(FilterAll)}

SortOptions == {"recent-desc", "price-asc", "price-desc", "rating-desc", "vendor-asc", "vendor-desc"}

\* sortBy as a caller may give it: absent, one of the six names, or another string
SortByValues == {None} \cup {Some(x) : x \in SortOptions} \cup {Some("newest")}

LimitValues == {None, Some(0), Some(1)}

OptionValues == [query : Queries, filters : FilterValues, sortBy : SortByValues, limit : LimitValues]

(***************************************************************************)
(* csvParser.ts: the JSON extractors and parseProduct                      *)
(***************************************************************************)
Col_ID == <<"I", "D">>

Col_TITLE == <<"T", "I", "T", "L", "E">>

Col_HANDLE == <<"H", "A", "N", "D", "L", "E">>

Col_VENDOR == <<"V", "E", "N", "D", "O", "R">>

Col_PRODUCT_TYPE == <<"P", "R", "O", "D", "U", "C", "T", "_", "T", "Y", "P", "E">>

Col_DESCRIPTION == <<"D", "E", "S", "C", "R", "I", "P", "T", "I", "O", "N">>

Col_BODY_HTML == <<"B", "O", "D", "Y", "_", "H", "T", "M", "L">>

Col_TAGS == <<"T", "A", "G", "S">>

Col_STATUS == <<"S", "T", "A", "T", "U", "S">>

Col_CREATED_AT == <<"C", "R", "E", "A", "T", "E", "D", "_", "A", "T">>

Col_UPDATED_AT == <<"U", "P", "D", "A", "T", "E", "D", "_", "A", "T">>

Col_PRICE_RANGE_V2 == <<"P", "R", "I", "C", "E", "_", "R", "A", "N", "G", "E", "_", "V", "2">>

Col_TOTAL_INVENTORY == <<"T", "O", "T", "A", "L", "_", "I", "N", "V", "E", "N", "T", "O", "R", "Y">>

Col_IMAGES == <<"I", "M", "A", "G", "E", "S">>

Col_FEATURED_IMAGE == <<"F", "E", "A", "T", "U", "R", "E", "D", "_", "I", "M", "A", "G", "E">>

Col_METAFIELDS == <<"M", "E", "T", "A", "F", "I", "E", "L", "D", "S">>

StrACTIVE == <<"A", "C", "T", "I", "V", "E">>

StrDRAFT == <<"D", "R", "A", "F", "T">>

StrUntitledProduct == <<"U", "n", "t", "i", "t", "l", "e", "d", " ", "P", "r", "o", "d", "u", "c", "t">>

StrUnknown == <<"U", "n", "k", "n", "o", "w", "n">>

StrGBP == <<"G", "B", "P">>

JsonPrice40 == <<"{", "\"", "m", "i", "n", "_", "v", "a", "r", "i", "a", "n", "t", "_", "p", "r", "i", "c", "e", "\"", ":", "{", "\"", "a", "m", "o", "u", "n", "t", "\"", ":", "\"", "4", "0", ".", "0", "\"", "}", "}">>

JsonPriceZero == <<"{", "\"", "m", "i", "n", "_", "v", "a", "r", "i", "a", "n", "t", "_", "p", "r", "i", "c", "e", "\"", ":", "{", "\"", "a", "m", "o", "u", "n", "t", "\"", ":", "\"", "0", ".", "0", "\"", "}", "}">>

JsonNoMinPrice == <<"{", "}">>

JsonPriceObject == <<"{", "\"", "m", "i", "n", "_", "v", "a", "r", "i", "a", "n", "t", "_", "p", "r", "i", "c", "e", "\"", ":", "{", "\"", "a", "m", "o", "u", "n", "t", "\"", ":", "{", "\"", "t", "o", "S", "t", "r", "i", "n", "g", "\"", ":", "1", "}", "}", "}">>

JsonMalformed == <<"{", "o", "o", "p", "s">>

Amount40 == <<"4", "0", ".", "0">>

AmountZero == <<"0", ".", "0">>

TitleTea == <<"T", "e", "a">>

TitleComma == <<"a", ",", "b">>

TitleEndQuote == <<"x", "\"">>

TitleNewline == <<"a", "\n", "b">>

\* JSON.parse on the texts the rows carry: Some(value) for the JSON texts among
\* them, None (a SyntaxError) for every other text, none of which is JSON.
jsonParse(text) ==
  CASE text = JsonPrice40 -> Some([min_variant_price |-> Some([amount |-> [type |-> "string", value |-> Amount40]])])
    [] text = JsonPriceZero -> Some([min_variant_price |-> Some([amount |-> [type |-> "string", value |-> AmountZero]])])
    [] text = JsonPriceObject -> Some([min_variant_price |-> Some([amount |-> [type |-> "object", value |-> <<>>]])])
    [] text = JsonNoMinPrice -> Some([min_variant_price |-> None])
    [] OTHER -> None

\* safeJsonParse: null for an empty or absent text and for a text that does not parse
safeJsonParse(json) == IF json = <<>> THEN None ELSE jsonParse(json)

digitValue(c) == (CHOOSE i \in DOMAIN DigitChars : DigitChars[i] = c) - 1

\* Number(text) for a decimal numeral with a zero fraction; None is NaN
numberOf(text) ==
  LET negative == text # <<>> /\ text[1] = "-"
      body == IF negative THEN Tail(text) ELSE text
      dots == {i \in DOMAIN body : body[i] = "."}
      whole == IF dots = {} THEN body ELSE SubSeq(body, 1, Min(dots) - 1)
      fraction == IF dots = {} THEN <<>> ELSE SubSeq(body, Min(dots) + 1, Len(body))
      V[i \in 0..Len(whole)] == IF i = 0 THEN 0 ELSE LET v == V[i - 1] IN 10 * v + digitValue(whole[i])
  IN IF /\ whole # <<>>
        /\ \A i \in DOMAIN whole : whole[i] \in DigitSet
        /\ \A i \in DOMAIN fraction : fraction[i] = "0"
     THEN Some(IF negative THEN 0 - V[Len(whole)] ELSE V[Len(whole)])
     ELSE None

\* Number(value) throws a TypeError for an object that has no primitive value:
\* one whose own toString is not a function, as in {"toString":1}
numberThrows(value) == value.type = "object"

\* whether extractPrice throws: Number(amount) is its only step that can
extractPriceThrows(priceJson) ==
  LET priceRange == safeJsonParse(priceJson)
  IN /\ IsSome(priceRange)
     /\ IsSome(priceRange[1].min_variant_price)
     /\ numberThrows(priceRange[1].min_variant_price[1].amount)

\* extractPrice: Number(amount) || 0 of min_variant_price, 0 without one
extractPrice(priceJson) ==
  LET priceRange == safeJsonParse(priceJson)
  IN IF IsSome(priceRange) /\ IsSome(priceRange[1].min_variant_price)
     THEN LET n == numberOf(priceRange[1].min_variant_price[1].amount.value)
          IN [amount |-> IF IsSome(n) THEN n[1] ELSE 0, currency |-> StrGBP]
     ELSE [amount |-> 0, currency |-> StrGBP]

\* extractImages: the featured image when its JSON parses and has a url
extractImages(imagesJson, featuredJson) ==
  IF featuredJson = <<>> THEN <<>>
  ELSE LET featured == safeJsonParse(featuredJson)
       IN <<>>

\* extractRating: nothing without metafields JSON that parses
extractRating(metafieldsJson) ==
  IF metafieldsJson = <<>> THEN [rating |-> None, reviewCount |-> None]
  ELSE LET metafields == safeJsonParse(metafieldsJson)
       IN [rating |-> None, reviewCount |-> None]

\* split(','), trim, drop the empty ones
parseTags(tagsString) ==
  LET F[i \in 0..Len(tagsString)] ==
        IF i = 0 THEN [done |-> <<>>, cur |-> <<>>]
        ELSE LET st == F[i - 1]
             IN IF tagsString[i] = "," THEN [done |-> Append(st.done, st.cur), cur |-> <<>>]
                ELSE [done |-> st.done, cur |-> Append(st.cur, tagsString[i])]
      last == F[Len(tagsString)]
      pieces == Append(last.done, last.cur)
  IN IF tagsString = <<>> THEN <<>>
     ELSE SelectSeq([i \in DOMAIN pieces |-> trim(pieces[i])], LAMBDA x : Len(x) > 0)

\* parseInt(text, 10): the leading digits; None is NaN
parseIntOf(text) ==
  LET body == trim(text)
      stop == {i \in DOMAIN body : body[i] \notin DigitSet}
      digits == IF stop = {} THEN body ELSE SubSeq(body, 1, Min(stop) - 1)
      V[i \in 0..Len(digits)] == IF i = 0 THEN 0 ELSE LET v == V[i - 1] IN 10 * v + digitValue(digits[i])
  IN IF digits = <<>> THEN None ELSE Some(V[Len(digits)])

\* raw.X: the cell of column X, empty when the header has no such column
rawField(raw, name) == IF name \in DOMAIN raw THEN raw[name] ELSE <<>>

orDefault(text, default) == IF text = <<>> THEN default ELSE text

\* lines 139-161: the record parseProduct builds when no step throws
productOf(raw) ==
  [id |-> rawField(raw, Col_ID),
   title |-> orDefault(rawField(raw, Col_TITLE), StrUntitledProduct),
   handle |-> rawField(raw, Col_HANDLE),
   vendor |-> orDefault(rawField(raw, Col_VENDOR), StrUnknown),
   productType |-> rawField(raw, Col_PRODUCT_TYPE),
   description |-> rawField(raw, Col_DESCRIPTION),
   bodyHtml |-> rawField(raw, Col_BODY_HTML),
   tags |-> parseTags(rawField(raw, Col_TAGS)),
   status |-> orDefault(rawField(raw, Col_STATUS), StrACTIVE),
   createdAt |-> rawField(raw, Col_CREATED_AT),
   updatedAt |-> rawField(raw, Col_UPDATED_AT),
   price |-> extractPrice(rawField(raw, Col_PRICE_RANGE_V2)),
   inventory |-> parseIntOf(orDefault(rawField(raw, Col_TOTAL_INVENTORY), <<"0">>)),
   images |-> extractImages(rawField(raw, Col_IMAGES), rawField(raw, Col_FEATURED_IMAGE)),
   rating |-> extractRating(rawField(raw, Col_METAFIELDS)).rating,
   reviewCount |-> extractRating(rawField(raw, Col_METAFIELDS)).reviewCount]

\* parseProduct: the record, or null (None) when a step threw: the catch of
\* lines 162-165 swallows the exception
parseProduct(raw) ==
  IF extractPriceThrows(rawField(raw, Col_PRICE_RANGE_V2)) THEN None ELSE Some(productOf(raw))

(***************************************************************************)
(* csvParser.ts: parseCSVLine and parseCSV                                 *)
(***************************************************************************)
charAt(text, i) == IF i \in DOMAIN text THEN <<text[i]>> ELSE <<>>

\* lines 184-205: the body of the loop over the characters of the input, at
\* position p; st.i is the loop's i, the next position it looks at
splitStep(text, st, p) ==
  IF st.i # p THEN st
  ELSE LET char == text[p]
       IN IF char = "\""
          THEN IF charAt(text, p + 1) = <<"\"">>
               THEN [st EXCEPT !.currentLine = (@ \o <<"\"", "\"">>) \o <<char>>, !.i = p + 2]
               ELSE [st EXCEPT !.inQuotes = ~@, !.currentLine = Append(@, char), !.i = p + 1]
          ELSE IF (char = "\n" \/ char = "\r") /\ ~st.inQuotes
               THEN [lines |-> IF trim(st.currentLine) # <<>> THEN Append(st.lines, st.currentLine) ELSE st.lines,
                     currentLine |-> <<>>,
                     inQuotes |-> st.inQuotes,
                     i |-> IF char = "\r" /\ charAt(text, p + 1) = <<"\n">> THEN p + 2 ELSE p + 1]
          ELSE [st EXCEPT !.currentLine = Append(@, char), !.i = p + 1]

\* the loop over positions lo..hi, run as its first half and then its second
RECURSIVE splitLoop(_, _, _, _)
splitLoop(text, st, lo, hi) ==
  IF lo > hi THEN st
  ELSE IF lo = hi THEN splitStep(text, st, lo)
  ELSE LET mid == (lo + hi) \div 2
           left == splitLoop(text, st, lo, mid)
       IN IF left.i > hi THEN left ELSE splitLoop(text, left, mid + 1, hi)

\* lines 179-211: the input cut into lines at the line ends outside quotes
splitLines(text) ==
  LET last == splitLoop(text, [lines |-> <<>>, currentLine |-> <<>>, inQuotes |-> FALSE, i |-> 1], 1, Len(text))
  IN IF trim(last.currentLine) # <<>> THEN Append(last.lines, last.currentLine) ELSE last.lines

\* lines 315-335: the body of the loop of parseCSVLine at position p
lineStep(line, st, p) ==
  IF st.i # p THEN st
  ELSE LET char == line[p]
       IN IF char = "\""
          THEN IF st.inQuotes /\ charAt(line, p + 1) = <<"\"">>
               THEN [st EXCEPT !.current = Append(@, "\""), !.i = p + 2]
               ELSE [st EXCEPT !.inQuotes = ~@, !.i = p + 1]
          ELSE IF char = "," /\ ~st.inQuotes
               THEN [st EXCEPT !.result = Append(@, trim(st.current)), !.current = <<>>, !.i = p + 1]
          ELSE [st EXCEPT !.current = Append(@, char), !.i = p + 1]

RECURSIVE lineLoop(_, _, _, _)
lineLoop(line, st, lo, hi) ==
  IF lo > hi THEN st
  ELSE IF lo = hi THEN lineStep(line, st, lo)
  ELSE LET mid == (lo + hi) \div 2
           left == lineLoop(line, st, lo, mid)
       IN IF left.i > hi THEN left ELSE lineLoop(line, left, mid + 1, hi)

parseCSVLine(line) ==
  LET last == lineLoop(line, [result |-> <<>>, current |-> <<>>, inQuotes |-> FALSE, i |-> 1], 1, Len(line))
  IN Append(last.result, trim(last.current))

\* lines 247-250: the cells of a row by column name (a name that stands twice
\* in the header takes the later cell; a row too short gives '')
rawDataOf(headers, values) ==
  [h \in Range(headers) |->
     LET index == Max({i \in DOMAIN headers : headers[i] = h})
     IN IF index \in DOMAIN values THEN values[index] ELSE <<>>]

\* a retention rule that looks at the status alone
retained_statusOnly(product) == product.status = StrACTIVE

\* line 255: only active products with a price above 0 are kept
retained(product) == product.status = StrACTIVE /\ product.price.amount > 0

\* the counters as they stand after totalRows rows
statsOf(totalRows, st) == [totalRows |-> totalRows, parsedProducts |-> Len(st.products), skippedRows |-> st.skippedRows, errors |-> st.errors]

\* a row that is not kept is not counted either
keepOrSkip_uncounted(st, values, product) ==
  IF IsSome(product) /\ retained(product[1])
  THEN [st EXCEPT !.products = Append(@, product[1]), !.values = Append(@, values)]
  ELSE [st EXCEPT !.values = Append(@, values)]

\* lines 255-259: the record is pushed, or the row (also one for which
\* parseProduct returned null) is counted as skipped
keepOrSkip(st, values, product) ==
  IF IsSome(product) /\ retained(product[1])
  THEN [st EXCEPT !.products = Append(@, product[1]), !.values = Append(@, values)]
  ELSE [st EXCEPT !.skippedRows = @ + 1, !.values = Append(@, values)]

\* line 266: i % 1000
PROGRESS_INTERVAL == 1000

\* the percentage cut down instead of rounded
reportProgress_truncated(st, i, totalLines, withObserver) ==
  IF withObserver /\ i % PROGRESS_INTERVAL = 0
  THEN [st EXCEPT !.calls = Append(@, [percent |-> (100 * i) \div totalLines, stats |-> statsOf(i, st)])]
  ELSE st

\* lines 266-274: after every 1000th row the callback gets the rounded
\* percentage and the counters
reportProgress(st, i, totalLines, withObserver) ==
  IF withObserver /\ i % PROGRESS_INTERVAL = 0
  THEN [st EXCEPT !.calls = Append(@, [percent |-> (200 * i + totalLines) \div (2 * totalLines), stats |-> statsOf(i, st)])]
  ELSE st

\* lines 244-259: the row is decoded, made a record and kept or skipped.
\* parseCSVLine does not throw and parseProduct catches what its steps throw,
\* so the catch branch of lines 260-263 is never taken.
parseRow(st, headers, values) == keepOrSkip(st, values, parseProduct(rawDataOf(headers, values)))

\* lines 237-274: the body of the loop over the data rows; a blank line is
\* counted as skipped and the rest of the body is not run for it
rowStep(st, headers, line, i, totalLines, withObserver) ==
  IF line = <<>> THEN [st EXCEPT !.skippedRows = @ + 1]
  ELSE reportProgress(parseRow(st, headers, parseCSVLine(line)), i, totalLines, withObserver)

\* the loop over the data rows lo..hi, run as its first half and then its
\* second; st.i is the loop's i, the next row it looks at
RECURSIVE rowLoop(_, _, _, _, _, _)
rowLoop(lines, headers, withObserver, st, lo, hi) ==
  IF lo > hi THEN st
  ELSE IF lo = hi THEN [rowStep(st, headers, trim(lines[lo + 1]), lo, Len(lines) - 1, withObserver) EXCEPT !.i = lo + 1]
  ELSE LET mid == (lo + hi) \div 2
           left == rowLoop(lines, headers, withObserver, st, lo, mid)
       IN IF left.i > hi THEN left ELSE rowLoop(lines, headers, withObserver, left, mid + 1, hi)

\* lines 230-275: the loop over the data rows
parseRows(lines, headers, withObserver) ==
  rowLoop(lines, headers, withObserver,
          [products |-> <<>>, skippedRows |-> 0, errors |-> 0, values |-> <<>>, calls |-> <<>>, i |-> 1],
          1, Len(lines) - 1)

\* lines 213-224: fewer than two lines give an empty result, with no call of
\* the callback and no assignment of the cache
emptyOutcome(lines) ==
  [result |-> [products |-> <<>>, stats |-> [totalRows |-> 0, parsedProducts |-> 0, skippedRows |-> 0, errors |-> 0]],
   lines |-> lines, values |-> <<>>, calls |-> <<>>, cached |-> FALSE]

\* lines 277-301: the last call of the callback, the result, the cache
fullOutcome(lines, st, stats, withObserver) ==
  [result |-> [products |-> st.products, stats |-> stats],
   lines |-> lines,
   values |-> st.values,
   calls |-> IF withObserver THEN Append(st.calls, [percent |-> 100, stats |-> stats]) ELSE st.calls,
   cached |-> TRUE]

afterRows(lines, st, withObserver) == fullOutcome(lines, st, statsOf(Len(lines) - 1, st), withObserver)

afterSplit(lines, withObserver) ==
  IF Len(lines) < 2 THEN emptyOutcome(lines)
  ELSE afterRows(lines, parseRows(lines, parseCSVLine(lines[1]), withObserver), withObserver)

\* parseCSV: what it returns, what it leaves in its locals lines and values,
\* the calls of the progress callback, and whether it assigns the cache.
\* parseTime is left out: it is the clock's.
parseCSV(text, withObserver) == afterSplit(splitLines(text), withObserver)

(***************************************************************************)
(* The search state machine: a collection and the options of a call are    *)
(* given, and searchProducts is called on them.                            *)
(***************************************************************************)
\* Before any call: nothing filtered, nothing returned
searchIdle == filtered = <<>> /\ results = <<>> /\ searched = FALSE

noSearch == products = <<>> /\ options = [query |-> <<>>, filters |-> None, sortBy |-> None, limit |-> None] /\ searchIdle

noScore == scoreArgs = [tokens |-> <<>>, field |-> <<>>, weight |-> 0] /\ scoreValue = None

noPair == pairArgs = <<>> /\ pairScores = None

noSidebar == sidebarFilters = None /\ sidebarOp = "none"

noHook == typedQuery = <<>> /\ debouncedQuery = <<>> /\ timers = <<>> /\ edits = 0 /\ hookSortBy = "none"

noCart == cartItems = <<>> /\ storage = None /\ mountStep = "none" /\ queuedCart = None /\ storedAtMount = None /\ cartOp = <<>>

noUrl == urlState = <<>> /\ urlParams = None /\ restored = None

noLog == callLog = <<>>

noPage == displayedItems = 0 /\ pageOp = 0 /\ resultCount = 0 /\ isSearching = FALSE

noMatch == matchArgs = None /\ matchOutcome = None

noUi == noSidebar /\ noHook /\ noCart /\ noUrl /\ noLog /\ noPage /\ noMatch

\* cachedParseResult starts as null
parseIdle == parseLines = <<>> /\ parseValues = <<>> /\ parseResult = None /\ progressCalls = <<>> /\ cachedParseResult = None /\ parsed = FALSE

noParse == csvRows = <<>> /\ csvBlanks = 0 /\ csvText = <<>> /\ observer = FALSE /\ parseIdle

Init ==
  /\ products \in Collections
  /\ options \in OptionValues
  /\ searchIdle
  /\ noScore
  /\ noParse
  /\ noPair
  /\ noUi

\* One call of searchProducts: it reads the collection and the options and
\* returns a new list.
Search ==
  /\ searched = FALSE
  /\ filtered' = applyFilters(products, options.filters)
  /\ results' \in searchProducts(products, options)
  /\ searched' = TRUE
  /\ UNCHANGED <<products, options, scoreVars, parseVars, pairVars, uiVars>>

Next == Search

Spec == Init /\ [][Next]_vars

(***************************************************************************)
(* The scoring state machine: one call of scoreField on a token list, a    *)
(* field text and a field weight.                                          *)
(***************************************************************************)
FieldGel == <<"G", "e", "l">>

FieldGelSpaced == <<" ", "G", "E", "L", " ">>

FieldZincGel == <<"Z", "i", "n", "c", " ", "G", "e", "l">>

FieldGelatin == <<"G", "e", "l", "a", "t", "i", "n", " ", "z", "n">>

FieldXGelY == <<"x", " ", "g", "e", "l", " ", "y">>

QueryLabGel == <<"l", "a", "b", " ", "g", "e", "l">>

QueryZn == <<"z", "n">>

QueryDashes == <<"-", "-", "-">>

ScoreQueries == {QueryGel, QueryTxLab, QueryGelZinc, QueryLabGel, QueryZn, QueryDashes}

\* "gexl" thirty times: 120 characters
FieldLong120 == [k \in 1..120 |-> <<"g", "e", "x", "l">>[((k - 1) % 4) + 1]]

\* one character more
FieldLong121 == Append(FieldLong120, "q")

ScoreFields == {<<>>, FieldLong120, FieldLong121, FieldGel, FieldGelSpaced, FieldZincGel, FieldGelatin, FieldXGelY, TitleGelTxLab, TitleNugel, TagGEl, TagLAb, BodyZinc}

ScoreWeights == {FIELD_WEIGHTS[f] : f \in DOMAIN FIELD_WEIGHTS}

ScoreInit ==
  /\ \E q \in ScoreQueries, field \in ScoreFields, weight \in ScoreWeights :
       scoreArgs = [tokens |-> tokenize(q), field |-> field, weight |-> weight]
  /\ scoreValue = None
  /\ noSearch
  /\ noParse
  /\ noPair
  /\ noUi

ScoreField ==
  /\ scoreValue = None
  /\ scoreValue' = Some(scoreField(scoreArgs.tokens, scoreArgs.field, scoreArgs.weight))
  /\ UNCHANGED <<scoreArgs, searchVars, parseVars, pairVars, uiVars>>

ScoreNext == ScoreField

ScoreSpec == ScoreInit /\ [][ScoreNext]_vars

(***************************************************************************)
(* The weighting state machine: two calls of calculateScore on two records *)
(* made from one record by putting a text in one field of each.            *)
(***************************************************************************)
BodyGelTab == <<"<", "b", ">", "G", "e", "l", "<", "/", "b", ">", "t", "a", "b">>

PairBases ==
  {[Product1 EXCEPT !.title = t, !.vendor = v, !.description = d, !.bodyHtml = b, !.tags = g] :
     t \in {TitleZinc, FieldGelatin}, v \in {VendorGenCo, VendorTxGel},
     d \in {<<>>, DescPure}, b \in {<<>>, BodyGelTab}, g \in {<<>>, <<TagGEl>>}}

PairTexts == {FieldGel, FieldGelSpaced}

PairQueries == {QueryGel, FieldGelSpaced}

\* the fields calculateScore weighs, the heavier before the lighter
PairFields ==
  {[hi |-> "title", lo |-> "vendor"], [hi |-> "title", lo |-> "description"], [hi |-> "title", lo |-> "tags"],
   [hi |-> "vendor", lo |-> "description"], [hi |-> "vendor", lo |-> "tags"], [hi |-> "description", lo |-> "tags"]}

\* the record with the text as the whole of one field
withField(base, name, text) ==
  CASE name = "title" -> [base EXCEPT !.title = text]
    [] name = "vendor" -> [base EXCEPT !.vendor = text]
    [] name = "description" -> [base EXCEPT !.description = text]
    [] name = "tags" -> [base EXCEPT !.tags = <<text>>]

PairInit ==
  /\ \E base \in PairBases, text \in PairTexts, q \in PairQueries, fields \in PairFields :
       pairArgs = [tokens |-> tokenize(q), hi |-> fields.hi, lo |-> fields.lo,
                   first |-> withField(base, fields.hi, text), second |-> withField(base, fields.lo, text)]
  /\ pairScores = None
  /\ noSearch
  /\ noScore
  /\ noParse
  /\ noUi

ScorePair ==
  /\ pairScores = None
  /\ pairScores' = Some(<<calculateScore(pairArgs.first, pairArgs.tokens), calculateScore(pairArgs.second, pairArgs.tokens)>>)
  /\ UNCHANGED <<pairArgs, searchVars, scoreVars, parseVars, uiVars>>

PairNext == ScorePair

PairSpec == PairInit /\ [][PairNext]_vars

(***************************************************************************)
(* The parsing state machine: a text written from rows of cells, and one   *)
(* call of parseCSV on it.                                                 *)
(***************************************************************************)
\* A cell as a CSV writer puts it in the text: wrapped in double quotes, each
\* double quote of the cell doubled, when the cell holds a double quote, a
\* comma or a line end, or when the writer quotes every cell.
needsQuotes(cell) == \E i \in DOMAIN cell : cell[i] \in {"\"", ",", "\n", "\r"}

doubleQuotes(cell) ==
  LET F[i \in 0..Len(cell)] ==
        IF i = 0 THEN <<>>
        ELSE LET out == F[i - 1]
             IN IF cell[i] = "\"" THEN out \o <<"\"", "\"">> ELSE Append(out, cell[i])
  IN F[Len(cell)]

writeField(cell, quoteAll) ==
  IF quoteAll \/ needsQuotes(cell) THEN <<"\"">> \o doubleQuotes(cell) \o <<"\"">> ELSE cell

writeRow(row, quoteAll) ==
  LET F[i \in 0..Len(row)] ==
        IF i = 0 THEN <<>>
        ELSE LET out == F[i - 1]
             IN (IF i = 1 THEN out ELSE Append(out, ",")) \o writeField(row[i], quoteAll)
  IN F[Len(row)]

HeaderRow == <<Col_ID, Col_TITLE, Col_STATUS, Col_PRICE_RANGE_V2>>

\* the rows, each after a line end
writeRows(rows, eol, quoteAll) ==
  LET F[i \in 0..Len(rows)] ==
        IF i = 0 THEN <<>>
        ELSE LET out == F[i - 1]
             IN out \o eol \o writeRow(rows[i], quoteAll)
  IN F[Len(rows)]

\* A blank row of the text: none, an empty row right after the header, or a
\* row of spaces after the last row
BlankRows == {[at |-> "none", text |-> <<>>], [at |-> "afterHeader", text |-> <<>>], [at |-> "atEnd", text |-> <<" ", " ">>]}

writeBlank(blank, at, eol) == IF blank.at = at THEN eol \o blank.text ELSE <<>>

writeCSV(rows, eol, quoteAll, blank) ==
  writeRow(HeaderRow, FALSE) \o writeBlank(blank, "afterHeader", eol) \o writeRows(rows, eol, quoteAll) \o writeBlank(blank, "atEnd", eol)

LineEnds == {<<"\n">>, <<"\r", "\n">>, <<"\r">>}

\* Rows of cells ID, TITLE, STATUS, PRICE_RANGE_V2
RowSeq ==
  << <<<<"1">>, TitleTea, StrACTIVE, JsonPrice40>>,
     <<<<"2">>, TitleComma, StrACTIVE, JsonPrice40>>,
     <<<<"3">>, TitleEndQuote, StrACTIVE, JsonPrice40>>,
     <<<<"4">>, TitleNewline, <<>>, JsonPrice40>>,
     <<<<"5">>, <<>>, StrACTIVE, JsonPrice40>>,
     <<<<"6">>, TitleTea, StrDRAFT, JsonPrice40>>,
     <<<<"7">>, TitleTea, <<>>, <<>>>>,
     <<<<"8">>, TitleTea, StrACTIVE, JsonMalformed>>,
     <<<<"9">>, TitleTea, StrACTIVE, JsonPriceZero>>,
     <<<<"a">>, TitleTea, StrACTIVE, JsonNoMinPrice>>,
     <<<<"b">>, TitleTea, StrACTIVE, JsonPriceObject>> >>

RowPool == Range(RowSeq)

\* the rows of RowSeq at the places S, in the order of RowSeq
rowsAt(S) == [i \in 1..Cardinality(S) |-> RowSeq[CHOOSE x \in S : Cardinality({y \in S : y < x}) = i - 1]]

\* up to MaxRows different rows
RowLists == {rowsAt(S) : S \in {T \in SUBSET DOMAIN RowSeq : Cardinality(T) <= MaxRows}}

\* a text with a header, or the empty text
ParseInit ==
  /\ csvRows \in RowLists
  /\ \/ \E eol \in LineEnds, quoteAll \in BOOLEAN, blank \in BlankRows :
          /\ csvText = writeCSV(csvRows, eol, quoteAll, blank)
          /\ csvBlanks = IF blank.at = "none" THEN 0 ELSE 1
     \/ csvRows = <<>> /\ csvText = <<>> /\ csvBlanks = 0
  /\ observer \in BOOLEAN
  /\ parseIdle
  /\ noSearch
  /\ noScore
  /\ noPair
  /\ noUi

\* One call of parseCSV(csvText, onProgress)
ParseCSV ==
  /\ parsed = FALSE
  /\ \E call \in {parseCSV(csvText, observer)} :
       /\ parseLines' = call.lines
       /\ parseValues' = call.values
       /\ parseResult' = Some(call.result)
       /\ progressCalls' = call.calls
       /\ cachedParseResult' = IF call.cached THEN Some(call.result) ELSE cachedParseResult
  /\ parsed' = TRUE
  /\ UNCHANGED <<csvRows, csvBlanks, csvText, observer, searchVars, scoreVars, pairVars, uiVars>>

ParseNext == ParseCSV

ParseSpec == ParseInit /\ [][ParseNext]_vars

(***************************************************************************)
(* The same call on long inputs: the header and one row written again and  *)
(* again, as many times as the progress interval needs.                    *)
(***************************************************************************)
\* unit written n times
repeatText(unit, n) == [k \in 1..(n * Len(unit)) |-> unit[((k - 1) % Len(unit)) + 1]]

RetainedRow == RowSeq[1]

DraftRow == RowSeq[6]

SkippedRow == RowSeq[7]

MalformedRow == RowSeq[8]

\* the rows written again and again: one row, or two in turn
RowUnits == {<<RetainedRow>>, <<SkippedRow>>, <<RetainedRow, DraftRow>>, <<MalformedRow, RetainedRow>>}

LongRowUnits == {<<SkippedRow>>, <<RetainedRow, DraftRow>>}

\* row counts: a few rows, and counts just below, at and just above the
\* interval of 1000 rows and its double
ShortRowCounts == 1..MaxShortRows

LongRowCounts == {PROGRESS_INTERVAL - 1, PROGRESS_INTERVAL, PROGRESS_INTERVAL + 1, 2 * PROGRESS_INTERVAL}

ProgressInputs == [count : ShortRowCounts, unit : RowUnits] \cup [count : LongRowCounts, unit : LongRowUnits]

\* count rows of the unit in turn
unitRows(unit, count) == [k \in 1..count |-> unit[((k - 1) % Len(unit)) + 1]]

unitText(unit, count) ==
  repeatText(writeRows(unit, <<"\n">>, FALSE), count \div Len(unit))
    \o writeRows(SubSeq(unit, 1, count % Len(unit)), <<"\n">>, FALSE)

ProgressInit ==
  /\ \E input \in ProgressInputs :
       /\ csvRows = unitRows(input.unit, input.count)
       /\ csvText = writeRow(HeaderRow, FALSE) \o unitText(input.unit, input.count)
  /\ csvBlanks = 0
  /\ observer \in BOOLEAN
  /\ parseIdle
  /\ noSearch
  /\ noScore
  /\ noPair
  /\ noUi

ProgressSpec == ProgressInit /\ [][ParseNext]_vars

(***************************************************************************)
(* FilterSidebar.tsx: the handlers of the filter panel.  The parent stores  *)
(* what onFiltersChange is given and hands it back as the prop "filters".   *)
(***************************************************************************)
\* filters?.vendors, filters?.priceRange, filters?.inStock
filterField(filters, name) == IF IsSome(filters) THEN filters[1][name] ELSE None

\* filters?.vendors || []
selectedVendors(filters) == IF IsSome(filterField(filters, "vendors")) THEN filterField(filters, "vendors")[1] ELSE <<>>

\* filters?.inStock || false
inStockOnly(filters) == IsSome(filterField(filters, "inStock")) /\ filterField(filters, "inStock")[1]

\* lines 59-63: the keys the caller names are taken from it, the others kept
updatedFilters(filters, keys, values) ==
  [name \in {"vendors", "priceRange", "inStock"} |-> IF name \in keys THEN values[name] ELSE filterField(filters, name)]

\* lines 65-68
hasActiveFilters(updated) ==
  \/ IsSome(updated.vendors) /\ Len(updated.vendors[1]) > 0
  \/ IsSome(updated.priceRange)
  \/ IsSome(updated.inStock) /\ updated.inStock[1] # FALSE

\* every value is handed on as it is
updateFilters_unnormalized(filters, keys, values) ==
  Some(updatedFilters(filters, keys, values))

\* lines 58-71: what onFiltersChange is called with
updateFilters(filters, keys, values) ==
  IF hasActiveFilters(updatedFilters(filters, keys, values)) THEN Some(updatedFilters(filters, keys, values)) ELSE None

toggleVendor(filters, vendor) ==
  LET selected == selectedVendors(filters)
      newVendors == IF vendor \in Range(selected) THEN SelectSeq(selected, LAMBDA v : v # vendor) ELSE Append(selected, vendor)
  IN updateFilters(filters, {"vendors"}, [vendors |-> IF Len(newVendors) > 0 THEN Some(newVendors) ELSE None])

updatePriceRange(filters, min, max) ==
  updateFilters(filters, {"priceRange"}, [priceRange |-> Some([min |-> min, max |-> max])])

toggleInStock(filters) ==
  updateFilters(filters, {"inStock"}, [inStock |-> Some(~inStockOnly(filters))])

SidebarVendors == {VendorGenCo, VendorNugel, VendorTxGel}

SidebarPrices == {0, 20, 30}

SidebarInit ==
  /\ noSidebar
  /\ noSearch /\ noScore /\ noParse /\ noPair
  /\ noHook /\ noCart /\ noUrl /\ noLog /\ noPage /\ noMatch

coreVars == <<searchVars, scoreVars, parseVars, pairVars>>

otherThanSidebar == <<coreVars, hookVars, cartVars, urlVars, cacheVars, pageVars, matchVars>>

ToggleVendor ==
  /\ \E vendor \in SidebarVendors : sidebarFilters' = toggleVendor(sidebarFilters, vendor)
  /\ sidebarOp' = "toggleVendor"
  /\ UNCHANGED otherThanSidebar

UpdatePriceRange ==
  /\ \E min \in SidebarPrices, max \in SidebarPrices : sidebarFilters' = updatePriceRange(sidebarFilters, min, max)
  /\ sidebarOp' = "updatePriceRange"
  /\ UNCHANGED otherThanSidebar

ToggleInStock ==
  /\ sidebarFilters' = toggleInStock(sidebarFilters)
  /\ sidebarOp' = "toggleInStock"
  /\ UNCHANGED otherThanSidebar

\* lines 89-92
ClearFilters ==
  /\ sidebarFilters' = None
  /\ sidebarOp' = "clearFilters"
  /\ UNCHANGED otherThanSidebar

SidebarNext == ToggleVendor \/ UpdatePriceRange \/ ToggleInStock \/ ClearFilters

SidebarSpec == SidebarInit /\ [][SidebarNext]_vars

(***************************************************************************)
(* hooks.ts: useProductSearch.  Each handler is taken with the render and   *)
(* the effects that follow it; a debounce timer that fires is a step of its *)
(* own.  The state "filters" of the hook is the variable sidebarFilters.    *)
(***************************************************************************)
HookQueries == {<<>>, QueryGel, QueryTxLab, QueryGelZinc}

\* the effect is run again without its cleanup: the old timer stays
debounceEffect_noCleanup(pending, newQuery) == Append(pending, newQuery)

\* lines 116-123, run because "query" changed: the cleanup of the last run
\* clears its timer, then a timer is set for the new query
debounceEffect(pending, newQuery) == Append(SubSeq(pending, 1, Len(pending) - 1), newQuery)

\* the collection the page gives the hook
HookProducts == <<Product2, Product3, Product1, Product4>>

\* lines 126-133: the lists "results" may be, by the state of the hook
exposedLists ==
  searchProducts(HookProducts, [query |-> debouncedQuery, filters |-> sidebarFilters, sortBy |-> Some(hookSortBy), limit |-> None])

\* after the first render and its effects: a timer is pending for ''
HookInit ==
  /\ typedQuery = <<>>
  /\ debouncedQuery = <<>>
  /\ timers = <<<<>>>>
  /\ edits = 0
  /\ hookSortBy = "recent-desc"
  /\ noSidebar
  /\ noSearch /\ noScore /\ noParse /\ noPair
  /\ noCart /\ noUrl /\ noLog /\ noPage /\ noMatch

\* lines 135-137; setQuery with the value the state has changes nothing
UpdateQuery ==
  /\ edits < MaxEdits
  /\ \E newQuery \in HookQueries \ {typedQuery} :
       /\ typedQuery' = newQuery
       /\ timers' = debounceEffect(timers, newQuery)
  /\ edits' = edits + 1
  /\ UNCHANGED <<debouncedQuery, hookSortBy, filterVars, coreVars, cartVars, urlVars, cacheVars, pageVars, matchVars>>

\* lines 118-121: the callback of the timer
TimerFires ==
  /\ timers # <<>>
  /\ debouncedQuery' = Head(timers)
  /\ timers' = Tail(timers)
  /\ UNCHANGED <<typedQuery, edits, hookSortBy, filterVars, coreVars, cartVars, urlVars, cacheVars, pageVars, matchVars>>

\* lines 139-141
UpdateFilters ==
  /\ sidebarFilters' \in FilterValues
  /\ sidebarOp' = "updateFilters"
  /\ UNCHANGED <<hookVars, coreVars, cartVars, urlVars, cacheVars, pageVars, matchVars>>

\* lines 143-145
UpdateSortBy ==
  /\ hookSortBy' \in SortOptions
  /\ UNCHANGED <<typedQuery, debouncedQuery, timers, edits, filterVars, coreVars, cartVars, urlVars, cacheVars, pageVars, matchVars>>

\* lines 147-152
ResetSearch ==
  /\ typedQuery' = <<>>
  /\ debouncedQuery' = <<>>
  /\ timers' = IF typedQuery # <<>> THEN debounceEffect(timers, <<>>) ELSE timers
  /\ sidebarFilters' = None
  /\ sidebarOp' = "resetSearch"
  /\ hookSortBy' = "recent-desc"
  /\ UNCHANGED <<edits, coreVars, cartVars, urlVars, cacheVars, pageVars, matchVars>>

HookNext == UpdateQuery \/ TimerFires \/ UpdateFilters \/ UpdateSortBy \/ ResetSearch

\* a timer that is pending fires after its delay
HookSpec == HookInit /\ [][HookNext]_vars /\ WF_vars(TimerFires)

(***************************************************************************)
(* page.tsx: the cart of SearchStore and its copy in localStorage.  A text  *)
(* of the storage is either the JSON of a list of entries or something     *)
(* JSON.parse throws on.                                                   *)
(***************************************************************************)
\* JSON.stringify leaves out a key whose value is undefined
stringifyProduct(product) ==
  [k \in DOMAIN product \ (IF "rating" \in DOMAIN product /\ product.rating = None THEN {"rating"} ELSE {}) |-> product[k]]

\* JSON.stringify(cartItems)
stringifyCart(cart) ==
  [kind |-> "json", value |-> [k \in DOMAIN cart |-> [product |-> stringifyProduct(cart[k].product), quantity |-> cart[k].quantity]]]

\* JSON.parse(savedCart) throws on a text that is no JSON
parseCartThrows(text) == text.kind # "json"

\* JSON.parse(savedCart)
parseCart(text) == text.value

\* lines 55-58: cartItems.reduce((sum, item) => sum + item.quantity, 0)
cartCount(cart) ==
  LET F[k \in 0..Len(cart)] == IF k = 0 THEN 0 ELSE F[k - 1] + cart[k].quantity
  IN F[Len(cart)]

\* the product is appended although the cart has it
addToCart_appends(cart, product) == Append(cart, [product |-> product, quantity |-> 1])

\* lines 65-75: the updater given to setCartItems
addToCart(cart, product) ==
  IF \E k \in DOMAIN cart : cart[k].product.id = product.id
  THEN [k \in DOMAIN cart |-> IF cart[k].product.id = product.id THEN [cart[k] EXCEPT !.quantity = @ + 1] ELSE cart[k]]
  ELSE Append(cart, [product |-> product, quantity |-> 1])

\* line 80: the updater given to setCartItems
removeFromCart(cart, productId) == SelectSeq(cart, LAMBDA item : item.product.id # productId)

CartProducts == {Product1, Product2, Product3}

GarbageText == [kind |-> "garbage", value |-> <<>>]

\* what the storage may hold when the page is opened: nothing, a text that is
\* no JSON, and carts the page saved earlier
StoredTexts ==
  {None, Some(GarbageText), Some(stringifyCart(<<>>)),
   Some(stringifyCart(<<[product |-> Product1, quantity |-> 2]>>)),
   Some(stringifyCart(<<[product |-> Product3, quantity |-> 1], [product |-> Product1, quantity |-> MaxQuantity]>>))}

\* the first render: cartItems is [] and no effect has run
CartInit ==
  /\ storage \in StoredTexts
  /\ storedAtMount = storage
  /\ cartItems = <<>>
  /\ queuedCart = None
  /\ mountStep = "rendered"
  /\ cartOp = <<>>
  /\ noSidebar /\ noHook /\ noUrl /\ noLog /\ noPage /\ noMatch
  /\ noSearch /\ noScore /\ noParse /\ noPair

otherThanCart == <<coreVars, filterVars, hookVars, urlVars, cacheVars, pageVars, matchVars>>

\* lines 39-48, the first effect of the mount
LoadCart ==
  /\ mountStep = "rendered"
  /\ queuedCart' = IF IsSome(storage) /\ ~parseCartThrows(storage[1]) THEN Some(parseCart(storage[1])) ELSE None
  /\ mountStep' = "loaded"
  /\ UNCHANGED <<cartItems, storage, storedAtMount, cartOp, otherThanCart>>

\* the save effect runs on the cart of the first render, the loaded one kept
\* waiting
rerenderAfterMount_noSave == [cart |-> IF IsSome(queuedCart) THEN queuedCart[1] ELSE cartItems, text |-> storage]

\* the render that takes the queued cart, and the save effect (lines 51-53)
\* that runs because cartItems changed
rerenderAfterMount ==
  IF IsSome(queuedCart)
  THEN [cart |-> queuedCart[1], text |-> Some(stringifyCart(queuedCart[1]))]
  ELSE [cart |-> cartItems, text |-> storage]

\* lines 51-53, the second effect of the mount: it sees the cart of the
\* first render
SaveCart ==
  /\ mountStep = "loaded"
  /\ storage' = Some(stringifyCart(cartItems))
  /\ mountStep' = "saved"
  /\ UNCHANGED <<cartItems, queuedCart, storedAtMount, cartOp, otherThanCart>>

RerenderCart ==
  /\ mountStep = "saved"
  /\ cartItems' = rerenderAfterMount.cart
  /\ storage' = rerenderAfterMount.text
  /\ queuedCart' = None
  /\ mountStep' = "mounted"
  /\ UNCHANGED <<storedAtMount, cartOp, otherThanCart>>

\* lines 64-77, with the render and the save effect that follow
HandleAddToCart ==
  /\ mountStep \in {"mounted", "used"}
  /\ \E product \in CartProducts :
       /\ \A k \in DOMAIN cartItems : cartItems[k].product.id = product.id => cartItems[k].quantity < MaxQuantity
       /\ cartItems' = addToCart(cartItems, product)
       /\ storage' = Some(stringifyCart(addToCart(cartItems, product)))
       /\ cartOp' = <<"add", product.id, cartItems>>
  /\ mountStep' = "used"
  /\ UNCHANGED <<queuedCart, storedAtMount, otherThanCart>>

\* lines 79-81, with the render and the save effect that follow
HandleRemoveFromCart ==
  /\ mountStep \in {"mounted", "used"}
  /\ \E product \in CartProducts :
       /\ cartItems' = removeFromCart(cartItems, product.id)
       /\ storage' = Some(stringifyCart(removeFromCart(cartItems, product.id)))
       /\ cartOp' = <<"remove", product.id, cartItems>>
  /\ mountStep' = "used"
  /\ UNCHANGED <<queuedCart, storedAtMount, otherThanCart>>

CartNext == LoadCart \/ SaveCart \/ RerenderCart \/ HandleAddToCart \/ HandleRemoveFromCart

\* the effects of the mount and the render they ask for are run
CartSpec == CartInit /\ [][CartNext]_vars /\ WF_vars(LoadCart \/ SaveCart \/ RerenderCart)

(***************************************************************************)
(* page.tsx: the search state in the URL.  The parameters are held by name, *)
(* as URLSearchParams gives them back after its own encoding and decoding.  *)
(***************************************************************************)
\* Array.prototype.join(',')
joinComma(list) ==
  LET F[k \in 0..Len(list)] ==
        IF k = 0 THEN <<>>
        ELSE LET text == F[k - 1] IN IF k = 1 THEN list[k] ELSE text \o <<",">> \o list[k]
  IN F[Len(list)]

\* String.prototype.split(',')
splitComma(text) ==
  LET F[i \in 0..Len(text)] ==
        IF i = 0 THEN [done |-> <<>>, cur |-> <<>>]
        ELSE LET st == F[i - 1]
             IN IF text[i] = "," THEN [done |-> Append(st.done, st.cur), cur |-> <<>>]
                ELSE [done |-> st.done, cur |-> Append(st.cur, text[i])]
      last == F[Len(text)]
  IN Append(last.done, last.cur)

\* lines 174-177: the parameters set for a state
writeParams(state) ==
  LET vendors == selectedVendors(state.filters)
      keys == (IF state.query # <<>> THEN {"q"} ELSE {})
              \cup (IF state.sortBy # "recent-desc" THEN {"sort"} ELSE {})
              \cup (IF Len(vendors) > 0 THEN {"brands"} ELSE {})
  IN [k \in keys |-> CASE k = "q" -> state.query
                       [] k = "sort" -> state.sortBy
                       [] k = "brands" -> joinComma(vendors)]

\* lines 158-165 in a session that starts with no query, 'recent-desc' and no
\* filters, and the debounce timer that follows updateQuery
readParams(params) ==
  [query |-> IF "q" \in DOMAIN params /\ params["q"] # <<>> THEN params["q"] ELSE <<>>,
   sortBy |-> IF "sort" \in DOMAIN params /\ params["sort"] # "" THEN params["sort"] ELSE "recent-desc",
   filters |-> IF "brands" \in DOMAIN params /\ params["brands"] # <<>>
               THEN Some([vendors |-> Some(splitComma(params["brands"])), priceRange |-> None, inStock |-> None])
               ELSE None]

VendorCommaCo == <<"A", ",", "B">>

UrlFilters ==
  {None, Some(FilterVendor), Some(FilterPrice), Some(FilterStock), Some(FilterAll),
   Some([noFilter EXCEPT !.vendors = Some(<<VendorNugel, VendorGenCo>>)]),
   Some([noFilter EXCEPT !.vendors = Some(<<VendorCommaCo>>)])}

UrlStates == [query : {<<>>, QueryGel, QueryTxLab}, sortBy : SortOptions, filters : UrlFilters]

UrlInit ==
  /\ urlState \in UrlStates
  /\ urlParams = None
  /\ restored = None
  /\ noSidebar /\ noHook /\ noCart /\ noLog /\ noPage /\ noMatch
  /\ noSearch /\ noScore /\ noParse /\ noPair

otherThanUrl == <<coreVars, filterVars, hookVars, cartVars, cacheVars, pageVars, matchVars>>

\* lines 171-185
PushUrl ==
  /\ urlParams = None
  /\ urlParams' = Some(writeParams(urlState))
  /\ UNCHANGED <<urlState, restored, otherThanUrl>>

\* lines 155-168: the URL is opened in a fresh session
OpenUrl ==
  /\ urlParams # None
  /\ restored = None
  /\ restored' = Some(readParams(urlParams[1]))
  /\ UNCHANGED <<urlState, urlParams, otherThanUrl>>

UrlNext == PushUrl \/ OpenUrl

UrlSpec == UrlInit /\ [][UrlNext]_vars

(***************************************************************************)
(* The matched-fields state machine: one record and one token list, given  *)
(* to getMatches and, field by field, to the scoreField calls of           *)
(* calculateScore.                                                         *)
(***************************************************************************)
\* The addend of calculateScore for one field
fieldScore(product, tokens, name) ==
  CASE name = "title" -> scoreField(tokens, product.title, FIELD_WEIGHTS.title)
    [] name = "vendor" -> scoreField(tokens, product.vendor, FIELD_WEIGHTS.vendor)
    [] name = "description" -> scoreField(tokens, stripHtml(descriptionText(product)), FIELD_WEIGHTS.description)
    [] name = "tags" -> scoreField(tokens, joinSpace(product.tags), FIELD_WEIGHTS.tags)

MatchTags == {<<>>, <<TagGEl>>, <<TagWhey, FieldGelSpaced>>, <<FieldLong121, FieldGel>>, <<FieldLong121>>}

MatchRecords ==
  {[Product1 EXCEPT !.title = t, !.description = d, !.bodyHtml = b, !.tags = g] :
     t \in {TitleZinc, TagGEl}, d \in {<<>>, DescGel}, b \in {<<>>, BodyGelTab}, g \in MatchTags}

MatchQueries == {QueryGel, QueryGelZinc, QueryZn, QueryTxLab}

MatchInit ==
  /\ \E r \in MatchRecords, q \in MatchQueries : matchArgs = Some([product |-> r, tokens |-> tokenize(q)])
  /\ matchOutcome = None
  /\ noSearch
  /\ noScore
  /\ noParse
  /\ noPair
  /\ noSidebar /\ noHook /\ noCart /\ noUrl /\ noLog /\ noPage

GetMatches ==
  /\ matchOutcome = None
  /\ matchOutcome' = Some([matched |-> getMatches(matchArgs[1].product, matchArgs[1].tokens),
                           score |-> calculateScore(matchArgs[1].product, matchArgs[1].tokens),
                           fields |-> [name \in {"title", "vendor", "description", "tags"} |->
                                         fieldScore(matchArgs[1].product, matchArgs[1].tokens, name)]])
  /\ UNCHANGED <<matchArgs, coreVars, filterVars, hookVars, cartVars, urlVars, cacheVars, pageVars>>

MatchNext == GetMatches

MatchSpec == MatchInit /\ [][MatchNext]_vars

(***************************************************************************)
(* The parse cache state machine: calls of parseCSV and of                 *)
(* clearCachedParseResult in any order; getCachedParseResult reads the     *)
(* module variable.                                                        *)
(***************************************************************************)
\* lines 41-43
getCachedParseResult == cachedParseResult

\* the early return of lines 213-224 assigns the cache too
cacheAfterParse_always(cache, call) == Some(call.result)

\* line 299 is reached only past the early return of lines 213-224
cacheAfterParse(cache, call) == IF call.cached THEN Some(call.result) ELSE cache

\* The texts parseCSV is given: no text, a line of spaces, a header alone, and
\* a header with rows, with and without a blank row
CacheInputs ==
  {[text |-> <<>>, nonBlank |-> 0],
   [text |-> <<" ", " ", "\n">>, nonBlank |-> 0],
   [text |-> writeCSV(<<>>, <<"\n">>, FALSE, [at |-> "none", text |-> <<>>]), nonBlank |-> 1],
   [text |-> writeCSV(<<>>, <<"\n">>, FALSE, [at |-> "atEnd", text |-> <<" ", " ">>]), nonBlank |-> 1],
   [text |-> writeCSV(<<RetainedRow>>, <<"\n">>, FALSE, [at |-> "none", text |-> <<>>]), nonBlank |-> 2],
   [text |-> writeCSV(<<DraftRow>>, <<"\n">>, FALSE, [at |-> "afterHeader", text |-> <<>>]), nonBlank |-> 2],
   [text |-> writeCSV(<<RetainedRow, RowSeq[2]>>, <<"\n">>, TRUE, [at |-> "none", text |-> <<>>]), nonBlank |-> 3]}

CacheInit ==
  /\ cachedParseResult = None
  /\ callLog = <<>>
  /\ csvRows = <<>> /\ csvBlanks = 0 /\ csvText = <<>> /\ observer = FALSE
  /\ parseLines = <<>> /\ parseValues = <<>> /\ parseResult = None /\ progressCalls = <<>> /\ parsed = FALSE
  /\ noSearch
  /\ noScore
  /\ noPair
  /\ noSidebar /\ noHook /\ noCart /\ noUrl /\ noPage /\ noMatch

cacheFrame ==
  UNCHANGED <<csvRows, csvBlanks, csvText, observer, parseLines, parseValues, parseResult, progressCalls, parsed,
              searchVars, scoreVars, pairVars, filterVars, hookVars, cartVars, urlVars, pageVars, matchVars>>

\* One call of parseCSV(text)
CacheParse ==
  /\ Len(callLog) < MaxCalls
  /\ \E input \in CacheInputs :
       \E call \in {parseCSV(input.text, FALSE)} :
         /\ cachedParseResult' = cacheAfterParse(cachedParseResult, call)
         /\ callLog' = Append(callLog, [op |-> "parseCSV", nonBlank |-> input.nonBlank, result |-> Some(call.result)])
  /\ cacheFrame

\* One call of clearCachedParseResult()
CacheClear ==
  /\ Len(callLog) < MaxCalls
  /\ cachedParseResult' = None
  /\ callLog' = Append(callLog, [op |-> "clearCachedParseResult", nonBlank |-> 0, result |-> None])
  /\ cacheFrame

CacheNext == CacheParse \/ CacheClear

CacheSpec == CacheInit /\ [][CacheNext]_vars

(***************************************************************************)
(* The incremental display state machine: the hook's handlers as the page  *)
(* calls them, each with the render and the effects of the page that       *)
(* follow it, and the callback of the IntersectionObserver.                *)
(***************************************************************************)
\* page.tsx line 31
itemsPerPage == 100

\* hooks.ts line 161, which the page calls isSearching
isLoading == isSearching /\ typedQuery # debouncedQuery

\* "results", its records named by their places
pageResults == [i \in 1..resultCount |-> i]

\* Array.prototype.slice(0, end) for end >= 0
sliceTo(list, end) == SubSeq(list, 1, IF end < Len(list) THEN end ELSE Len(list))

\* page.tsx line 206
visibleResults == sliceTo(pageResults, displayedItems)

\* page.tsx line 207
hasMoreResults == resultCount > displayedItems

\* the callback loads more whatever the page shows
intersectionCallback_unguarded(displayed, more, loading) == displayed + itemsPerPage

\* page.tsx lines 211-215 and 199-201, for an entry that is intersecting
intersectionCallback(displayed, more, loading) ==
  IF more /\ ~loading THEN displayed + itemsPerPage ELSE displayed

\* what a handler found when it was called
found(name) == [op |-> name, from |-> displayedItems, more |-> resultCount > displayedItems, pending |-> typedQuery # debouncedQuery]

PageQueries == {<<>>, QueryGel, QueryTxLab}

PageFilters == {None, Some(FilterStock), Some(FilterVendor)}

PageSorts == {"recent-desc", "price-asc", "vendor-asc"}

\* how many records a search may return
ResultCounts == {0, 50, 100, 101, 250}

\* after the first render and its effects, the catalogue loaded
PageInit ==
  /\ typedQuery = <<>>
  /\ debouncedQuery = <<>>
  /\ timers = <<<<>>>>
  /\ edits = 0
  /\ hookSortBy = "recent-desc"
  /\ isSearching = TRUE
  /\ displayedItems = 100
  /\ resultCount \in ResultCounts
  /\ pageOp = [op |-> "mount", from |-> 100, more |-> resultCount > 100, pending |-> FALSE]
  /\ noSidebar
  /\ noSearch /\ noScore /\ noParse /\ noPair
  /\ noCart /\ noUrl /\ noLog /\ noMatch

pageFrame == UNCHANGED <<coreVars, cartVars, urlVars, cacheVars, matchVars>>

\* updateQuery, then the debounce effect (hooks.ts 116-123) and the reset of
\* the pagination (page.tsx 193-195), both run because "query" changed
PageUpdateQuery ==
  /\ edits < MaxEdits
  /\ \E newQuery \in PageQueries \ {typedQuery} :
       /\ typedQuery' = newQuery
       /\ timers' = debounceEffect(timers, newQuery)
  /\ edits' = edits + 1
  /\ isSearching' = TRUE
  /\ displayedItems' = itemsPerPage
  /\ pageOp' = found("updateQuery")
  /\ UNCHANGED <<debouncedQuery, hookSortBy, resultCount, filterVars>>
  /\ pageFrame

\* the callback of the debounce timer; "results" is computed again when
\* debouncedQuery changed
PageTimerFires ==
  /\ timers # <<>>
  /\ debouncedQuery' = Head(timers)
  /\ timers' = Tail(timers)
  /\ isSearching' = FALSE
  /\ resultCount' \in (IF Head(timers) # debouncedQuery THEN ResultCounts ELSE {resultCount})
  /\ pageOp' = found("timer")
  /\ UNCHANGED <<typedQuery, edits, hookSortBy, displayedItems, filterVars>>
  /\ pageFrame

\* updateFilters with the value of the sidebar (a new object, or undefined),
\* then "results" and the reset of the pagination
PageUpdateFilters ==
  /\ \E newFilters \in PageFilters :
       /\ newFilters # None \/ sidebarFilters # None
       /\ sidebarFilters' = newFilters
       /\ resultCount' \in (IF newFilters # sidebarFilters THEN ResultCounts ELSE {resultCount})
  /\ sidebarOp' = "updateFilters"
  /\ displayedItems' = itemsPerPage
  /\ pageOp' = found("updateFilters")
  /\ UNCHANGED <<hookVars, isSearching>>
  /\ pageFrame

\* updateSortBy with another option: the same records in another order
PageUpdateSortBy ==
  /\ \E newSortBy \in PageSorts \ {hookSortBy} : hookSortBy' = newSortBy
  /\ displayedItems' = itemsPerPage
  /\ pageOp' = found("updateSortBy")
  /\ UNCHANGED <<typedQuery, debouncedQuery, timers, edits, isSearching, resultCount, filterVars>>
  /\ pageFrame

\* resetSearch when it changes the query, the filters or the sort option
PageResetSearch ==
  /\ typedQuery # <<>> \/ sidebarFilters # None \/ hookSortBy # "recent-desc"
  /\ typedQuery' = <<>>
  /\ debouncedQuery' = <<>>
  /\ timers' = IF typedQuery # <<>> THEN debounceEffect(timers, <<>>) ELSE timers
  /\ isSearching' = IF typedQuery # <<>> THEN TRUE ELSE isSearching
  /\ sidebarFilters' = None
  /\ sidebarOp' = "resetSearch"
  /\ hookSortBy' = "recent-desc"
  /\ resultCount' \in (IF debouncedQuery # <<>> \/ sidebarFilters # None THEN ResultCounts ELSE {resultCount})
  /\ displayedItems' = itemsPerPage
  /\ pageOp' = found("resetSearch")
  /\ UNCHANGED edits
  /\ pageFrame

\* the IntersectionObserver reports the trigger element as intersecting
LoadMoreTrigger ==
  /\ displayedItems' = intersectionCallback(displayedItems, hasMoreResults, isLoading)
  /\ pageOp' = found("intersecting")
  /\ UNCHANGED <<hookVars, resultCount, isSearching, filterVars>>
  /\ pageFrame

PageNext ==
  PageUpdateQuery \/ PageTimerFires \/ PageUpdateFilters \/ PageUpdateSortBy \/ PageResetSearch \/ LoadMoreTrigger

PageSpec == PageInit /\ [][PageNext]_vars

(***************************************************************************)
(* Vocabulary of the properties.  These say what a match is without the    *)
(* engine's code: by the positions at which one text occurs in another.    *)
(***************************************************************************)
occursIn(t, text) == \E i \in 1..(Len(text) + 1) : \E j \in (i - 1)..Len(text) : SubSeq(text, i, j) = t

isPrefixOf(t, text) == \E k \in 0..Len(text) : SubSeq(text, 1, k) = t

\* t stands in text as a word of its own: between spaces or the ends of text
isSeparateWord(t, text) == occursIn(<<" ">> \o t \o <<" ">>, <<" ">> \o text \o <<" ">>)

\* t can be had from text by deleting characters: each character of t has an
\* occurrence in text after the earliest place found for the one before it
isScattered(t, text) ==
  LET P[i \in 0..Len(t)] ==
        IF i = 0 THEN 0
        ELSE LET prev == P[i - 1]
                 next == {j \in (prev + 1)..Len(text) : text[j] = t[i]}
             IN IF prev = -1 \/ next = {} THEN -1 ELSE Min(next)
  IN P[Len(t)] # -1

alnumOnly(text) == SelectSeq(text, LAMBDA c : c \in LowerSet \cup DigitSet)

\* The rung of the ladder a token reaches in a normalized field: 10, 5, 4, 2, 1 or 0
ladderRung(t, text) ==
  IF text = t THEN 10
  ELSE IF isPrefixOf(t, text) THEN 5
  ELSE IF isSeparateWord(t, text) THEN 4
  ELSE IF occursIn(t, text) THEN 2
  ELSE IF /\ Len(t) >= 3
          /\ Len(text) <= 120
          /\ alnumOnly(t) # <<>>
          /\ isScattered(alnumOnly(t), alnumOnly(text))
       THEN 1
  ELSE 0

RECURSIVE sumRungs(_, _)
sumRungs(tokens, text) == IF tokens = <<>> THEN 0 ELSE ladderRung(Head(tokens), text) + sumRungs(Tail(tokens), text)

\* The four texts of a record the engine looks at
fieldText(r, name) ==
  CASE name = "title" -> normalize(r.title)
    [] name = "vendor" -> normalize(r.vendor)
    [] name = "description" -> normalize(stripHtml(IF r.description # <<>> THEN r.description ELSE r.bodyHtml))
    [] name = "tags" -> normalize(joinSpace(r.tags))

FieldNames == {"title", "vendor", "description", "tags"}

\* The relevance of a record, in tenths: 3.0, 2.0, 1.0 and 0.5 times the rungs
relevanceOf(r, tokens) ==
  30 * sumRungs(tokens, fieldText(r, "title")) + 20 * sumRungs(tokens, fieldText(r, "vendor"))
  + 10 * sumRungs(tokens, fieldText(r, "description")) + 5 * sumRungs(tokens, fieldText(r, "tags"))

queryTokens == tokenize(options.query)

queryBlank == \A i \in DOMAIN options.query : IsSpace(options.query[i])

sortAbsent == options.sortBy = None

noLimit == options.limit = None

Ids(list) == [i \in DOMAIN list |-> list[i].id]

IdSet(list) == {list[i].id : i \in DOMAIN list}

\* the position of an id in a list of distinct ids
positionOf(ids, id) == CHOOSE i \in DOMAIN ids : ids[i] = id

\* a record passes the filters: every predicate that is given holds of it
passesFilters(p, f) ==
  /\ (IsSome(f.vendors) /\ f.vendors[1] # <<>>) => \E v \in DOMAIN f.vendors[1] : f.vendors[1][v] = p.vendor
  /\ IsSome(f.priceRange) => (f.priceRange[1].min <= p.price.amount /\ p.price.amount <= f.priceRange[1].max)
  /\ (IsSome(f.inStock) /\ f.inStock[1]) => p.inventory > 0

\* sub is list with some items left out: same items, same relative order
isSubsequenceOf(sub, list) ==
  \E pos \in [DOMAIN sub -> DOMAIN list] :
    /\ \A i \in DOMAIN sub : list[pos[i]] = sub[i]
    /\ \A i, j \in DOMAIN sub : i < j => pos[i] < pos[j]

(***************************************************************************)
(* Properties of searchProducts (specification Spec)                       *)
(***************************************************************************)
\* every token is an exact, prefix or separate-word match in title and vendor
matchesTitleAndVendorAsWord(r) ==
  \A k \in DOMAIN queryTokens :
    /\ ladderRung(queryTokens[k], fieldText(r, "title")) >= 4
    /\ ladderRung(queryTokens[k], fieldText(r, "vendor")) >= 4

relevanceNonIncreasing == \A i \in 1..(Len(results) - 1) : results[i].relevanceScore >= results[i + 1].relevanceScore

relevancePath == searched /\ ~queryBlank /\ sortAbsent

\* C2 (as amended): for a non-blank query and no sortBy the returned list is in
\* relevance order: relevanceScore never increases from one result to the next,
\* and a record in which every token is an exact, prefix or separate-word match
\* in both title and vendor stands strictly before every record whose tokens
\* match only in the description.
C2_RelevanceOrder ==
  relevancePath =>
    /\ relevanceNonIncreasing
    /\ \A i, j \in DOMAIN results :
         (matchesTitleAndVendorAsWord(results[i]) /\ results[j].matchedFields = <<"description">>) => i < j

\* C2 witness: a relevance-ordered list holding a title-and-vendor match and,
\* after it, a description-only match
C2_Witness ==
  /\ relevancePath
  /\ \E i, j \in DOMAIN results :
       /\ matchesTitleAndVendorAsWord(results[i])
       /\ results[j].matchedFields = <<"description">>
       /\ results[i].relevanceScore > results[j].relevanceScore

\* C2 as stated: any record matched in title and vendor stands strictly before
\* any record matched only in the description
C2_AsStated ==
  relevancePath =>
    /\ relevanceNonIncreasing
    /\ \A i, j \in DOMAIN results :
         (/\ "title" \in Range(results[i].matchedFields)
          /\ "vendor" \in Range(results[i].matchedFields)
          /\ results[j].matchedFields = <<"description">>) => i < j

\* C3: for a non-blank query every returned record has relevance >= 0.1, and
\* with no limit the returned records are exactly the filtered records whose
\* relevance is >= 0.1: none of relevance 0, and each one reached by nothing
\* but one fuzzy match.
C3_ThresholdFloor ==
  (searched /\ ~queryBlank) =>
    /\ \A i \in DOMAIN results :
         /\ results[i].relevanceScore >= 1
         /\ results[i].relevanceScore = relevanceOf(results[i], queryTokens)
    /\ noLimit => IdSet(results) = {filtered[k].id : k \in {k \in DOMAIN filtered : relevanceOf(filtered[k], queryTokens) >= 1}}

\* C3 witness: a returned record of relevance 0.5, from one fuzzy match in tags,
\* beside a filtered record of relevance 0 that is not returned
C3_Witness ==
  /\ searched /\ ~queryBlank /\ noLimit
  /\ \E i \in DOMAIN results : results[i].relevanceScore = 5 /\ results[i].matchedFields = <<>>
  /\ \E k \in DOMAIN filtered : relevanceOf(filtered[k], queryTokens) = 0 /\ filtered[k].id \notin IdSet(results)

\* C5: the filters are conjunctive and keep the order: the list the search
\* works on is the input records, in input order, that pass every given
\* predicate; nothing else is scored or returned; absent filters and the
\* filter {no vendors, price [0, Infinity], inStock false} leave the
\* collection unchanged.
C5_FiltersConjunctive ==
  searched =>
    /\ isSubsequenceOf(filtered, products)
    /\ \A k \in DOMAIN products :
         products[k].id \in IdSet(filtered) <=> (IsSome(options.filters) => passesFilters(products[k], options.filters[1]))
    /\ IdSet(results) \subseteq IdSet(filtered)
    /\ (queryBlank /\ noLimit) => IdSet(results) = IdSet(filtered)
    /\ (options.filters = None \/ options.filters = Some(FilterIdentity)) => filtered = products

\* C5 witness: all three predicates given, turning away the first of three
\* records and keeping the other two in their order
C5_Witness ==
  /\ searched
  /\ options.filters = Some(FilterAll)
  /\ Len(products) = 3 /\ Len(filtered) = 2
  /\ filtered[2] = products[3]

C7_SortKeepsResults ==
  (searched /\ ~queryBlank /\ noLimit) =>
    \A unsorted \in searchProducts(products, [options EXCEPT !.sortBy = None]) :
      /\ Len(results) = Len(unsorted)
      /\ Range(results) = Range(unsorted)

\* C7 witness: an explicit sortBy that returns the scored records in another
\* order than the relevance order
C7_Witness ==
  /\ searched /\ ~queryBlank /\ noLimit /\ ~sortAbsent
  /\ Len(results) = 3
  /\ \E unsorted \in searchProducts(products, [options EXCEPT !.sortBy = None]) : results # unsorted
  /\ \E i, j \in DOMAIN results : results[i].relevanceScore < results[j].relevanceScore /\ i < j

\* the key of a sort name; a creation time that does not parse has no key
sortName == IF sortAbsent THEN "vendor-asc" ELSE options.sortBy[1]

\* a stands before b, or beside it, in the order of the sort name
keyOrdered(name, a, b) ==
  CASE name = "price-asc" -> a.price.amount <= b.price.amount
    [] name = "price-desc" -> a.price.amount >= b.price.amount
    [] name = "rating-desc" -> (IF IsSome(a.rating) THEN a.rating[1] ELSE 0) >= (IF IsSome(b.rating) THEN b.rating[1] ELSE 0)
    [] name = "vendor-asc" -> localeCompare(a.vendor, b.vendor) <= 0
    [] name = "vendor-desc" -> localeCompare(a.vendor, b.vendor) >= 0
    [] OTHER -> (IsSome(getTime(a.createdAt)) /\ IsSome(getTime(b.createdAt))) => getTime(a.createdAt)[1] >= getTime(b.createdAt)[1]

\* the list sortResults was given: the filtered records for a blank query, the
\* scored records in relevance order otherwise
sortInputIds ==
  IF queryBlank THEN Ids(filtered)
  ELSE Ids(CHOOSE r \in searchProducts(products, [options EXCEPT !.sortBy = None, !.limit = None]) : TRUE)

sortedPath == searched /\ noLimit /\ (queryBlank \/ ~sortAbsent)

\* C8 as stated: sortResults returns a permutation of its input that is in the
\* order of the key of the sort name (any other name as recent-desc), and
\* records with equal keys keep their input order.
C8_SortedByKey ==
  sortedPath =>
    /\ Len(results) = Len(sortInputIds) /\ IdSet(results) = Range(sortInputIds)
    /\ \A i, j \in DOMAIN results :
         i < j =>
           /\ keyOrdered(sortName, results[i], results[j])
           /\ keyOrdered(sortName, results[j], results[i]) => positionOf(sortInputIds, results[i].id) < positionOf(sortInputIds, results[j].id)

\* C9: for every result of a non-blank query, matchedFields names a field
\* exactly when some token occurs in the normalized text of that field (for
\* tags: of one of the tags), in the order title, vendor, description, tags;
\* with no limit a filtered record whose description holds a token is returned,
\* with "description" among its matchedFields.
tokenOccurs(r, name) ==
  IF name = "tags"
  THEN \E k \in DOMAIN queryTokens : \E g \in DOMAIN r.tags : occursIn(queryTokens[k], normalize(r.tags[g]))
  ELSE \E k \in DOMAIN queryTokens : occursIn(queryTokens[k], fieldText(r, name))

C9_MatchedFields ==
  (searched /\ ~queryBlank) =>
    /\ \A i \in DOMAIN results :
         /\ \A name \in FieldNames : name \in Range(results[i].matchedFields) <=> tokenOccurs(results[i], name)
         /\ isSubsequenceOf(results[i].matchedFields, <<"title", "vendor", "description", "tags">>)
    /\ noLimit => \A k \in DOMAIN filtered : tokenOccurs(filtered[k], "description") => filtered[k].id \in IdSet(results)

\* C9 witness: a result whose only matched field is the description, the token
\* standing in a description that is not the record's title or vendor
C9_Witness ==
  /\ searched /\ ~queryBlank
  /\ \E i \in DOMAIN results : results[i].matchedFields = <<"description">> /\ ~tokenOccurs(results[i], "title")
  /\ \E i \in DOMAIN results : results[i].matchedFields = <<>>

(***************************************************************************)
(* Claims about scoreField, under ScoreSpec                                *)
(***************************************************************************)
\* C4: scoreField gives each token the contribution of the first rung of the
\* ladder that the normalized field meets (exact 10, prefix 5, separate word
\* 4, substring 2, scattered letters 1, none 0, times the weight) and returns
\* the sum of the tokens' contributions.
C4_ScoreLadder ==
  IsSome(scoreValue) =>
    scoreValue[1] = scoreArgs.weight * sumRungs(scoreArgs.tokens, normalize(scoreArgs.field))

\* a call with two tokens on different rungs, prefix and separate word
C4_Witness ==
  /\ IsSome(scoreValue)
  /\ Len(scoreArgs.tokens) = 2
  /\ ladderRung(scoreArgs.tokens[1], normalize(scoreArgs.field)) = 4
  /\ ladderRung(scoreArgs.tokens[2], normalize(scoreArgs.field)) = 5
  /\ scoreValue[1] = 9 * scoreArgs.weight

\* the one token of the call and the normalized field
gateToken == scoreArgs.tokens[1]

gateText == normalize(scoreArgs.field)

fuzzyDue ==
  /\ Len(gateToken) >= 3
  /\ Len(gateText) <= 120
  /\ alnumOnly(gateToken) # <<>>
  /\ isScattered(alnumOnly(gateToken), alnumOnly(gateText))

\* C25: a token that is a substring of the field gets a higher rule, at least
\* 2 x weight; a token that is not gets 1 x weight when it has 3 characters or
\* more, the field 120 or fewer, and its letters and digits are a non-empty
\* in-order subsequence of the field's, and 0 otherwise.
C25_FuzzyGated ==
  (IsSome(scoreValue) /\ Len(scoreArgs.tokens) = 1) =>
    IF occursIn(gateToken, gateText) THEN scoreValue[1] >= 2 * scoreArgs.weight
    ELSE IF fuzzyDue THEN scoreValue[1] = scoreArgs.weight
    ELSE scoreValue[1] = 0

\* a field of 121 characters with the letters of the token scattered in it
C25_Witness ==
  /\ IsSome(scoreValue)
  /\ Len(scoreArgs.tokens) = 1
  /\ Len(gateToken) >= 3
  /\ Len(gateText) = 121
  /\ isScattered(alnumOnly(gateToken), alnumOnly(gateText))
  /\ scoreValue[1] = 0

(***************************************************************************)
(* Claims about getMatches and the score, under MatchSpec                  *)
(***************************************************************************)
\* C26 as stated: there is a record and a token list for which getMatches
\* lists a field although that field adds 0 to the score under scoreField.
\* Read once a call is made, over the records and the queries the calls are
\* made with.
C26_AsStated ==
  IsSome(matchOutcome) =>
    \E r \in MatchRecords, q \in MatchQueries :
      \E name \in FieldNames :
        /\ name \in Range(getMatches(r, tokenize(q)))
        /\ fieldScore(r, tokenize(q), name) = 0

\* C26, amended: the matched-fields test is not looser than the scoring
\* ladder.  Every field getMatches lists adds at least 2 x its weight to the
\* score of the record, and the score is the sum of what the four fields add.
C26_ListedFieldScores ==
  IsSome(matchOutcome) =>
    /\ \A name \in FieldNames :
         name \in Range(matchOutcome[1].matched) => matchOutcome[1].fields[name] >= 2 * FIELD_WEIGHTS[name]
    /\ matchOutcome[1].score = matchOutcome[1].fields.title + matchOutcome[1].fields.vendor
                               + matchOutcome[1].fields.description + matchOutcome[1].fields.tags

\* tags is listed, and the title adds its fuzzy 1 x weight without being listed
C26_Witness ==
  /\ IsSome(matchOutcome)
  /\ "tags" \in Range(matchOutcome[1].matched)
  /\ "title" \notin Range(matchOutcome[1].matched)
  /\ matchOutcome[1].fields.title = FIELD_WEIGHTS.title

(***************************************************************************)
(* Claims about the parse cache, under CacheSpec                           *)
(***************************************************************************)
\* the calls of parseCSV on 2 non-blank lines or more made since the last clear
cachingCalls ==
  LET clears == {i \in DOMAIN callLog : callLog[i].op = "clearCachedParseResult"}
      lastClear == IF clears = {} THEN 0 ELSE Max(clears)
  IN {i \in DOMAIN callLog : i > lastClear /\ callLog[i].op = "parseCSV" /\ callLog[i].nonBlank >= 2}

\* C27: getCachedParseResult returns what the most recent parseCSV call on an
\* input of 2 non-blank lines or more, made since the last clear, returned:
\* its products and its statistics, the statistics counting those products;
\* and null when there is no such call.  (So a call on fewer than 2 non-blank
\* lines leaves the cache as it was.)
C27_LastSuccessfulParse ==
  IF cachingCalls = {} THEN getCachedParseResult = None
  ELSE /\ getCachedParseResult = callLog[Max(cachingCalls)].result
       /\ Len(getCachedParseResult[1].products) = getCachedParseResult[1].stats.parsedProducts

\* a parse that retains a record, then a parse of a header alone: the cache
\* still holds the first result
C27_Witness ==
  /\ Len(callLog) >= 2
  /\ callLog[Len(callLog)].op = "parseCSV" /\ callLog[Len(callLog)].nonBlank = 1
  /\ callLog[Len(callLog) - 1].op = "parseCSV" /\ callLog[Len(callLog) - 1].nonBlank >= 2
  /\ IsSome(getCachedParseResult)
  /\ Len(getCachedParseResult[1].products) >= 1
  /\ callLog[Len(callLog)].result # getCachedParseResult

(***************************************************************************)
(* Claims about the incremental display, under PageSpec                    *)
(***************************************************************************)
\* C30: the visible list is the first min(displayedItems, n) of the n results,
\* in their order; displayedItems is a positive multiple of 100, 100 at the
\* start and after every change of the query, the filters or the sort option;
\* it grows only by the load-more trigger, by exactly 100, and only when the
\* trigger found more results than were displayed and no search pending (the
\* typed query searched already); nothing else changes it.
C30_PrefixDisplay ==
  /\ Len(visibleResults) = Min({displayedItems, resultCount})
  /\ \A i \in DOMAIN visibleResults : visibleResults[i] = pageResults[i]
  /\ displayedItems > 0 /\ displayedItems % 100 = 0
  /\ pageOp.op \in {"mount", "updateQuery", "updateFilters", "updateSortBy", "resetSearch"} => displayedItems = 100
  /\ pageOp.op = "timer" => displayedItems = pageOp.from
  /\ pageOp.op = "intersecting" =>
       displayedItems = IF pageOp.more /\ ~pageOp.pending THEN pageOp.from + 100 ELSE pageOp.from

\* 200 results were displayed when the sort option changed: 100 are now
C30_Witness ==
  /\ pageOp.op = "updateSortBy"
  /\ pageOp.from = 200
  /\ displayedItems = 100
  /\ Len(visibleResults) = 100
  /\ resultCount > 100

(***************************************************************************)
(* Claims about parseCSV, under ParseSpec                                  *)
(***************************************************************************)
sourceId(row) == row[1]

sourceStatus(row) == row[3]

sourcePrice(row) == row[4]

returnedIds == {parseResult[1].products[i].id : i \in DOMAIN parseResult[1].products}

priceAbsentOrMalformed(row) == sourcePrice(row) = <<>> \/ jsonParse(sourcePrice(row)) = None

\* C1: every record parseCSV returns has status ACTIVE and a price amount
\* above 0, and no row whose price JSON is absent or malformed is returned.
C1_Retention ==
  IsSome(parseResult) =>
    /\ \A i \in DOMAIN parseResult[1].products :
         /\ parseResult[1].products[i].status = StrACTIVE
         /\ parseResult[1].products[i].price.amount > 0
    /\ \A k \in DOMAIN csvRows : priceAbsentOrMalformed(csvRows[k]) => sourceId(csvRows[k]) \notin returnedIds

\* a parse that returned a row written without a STATUS and dropped a row
\* whose price JSON is malformed
C1_Witness ==
  /\ IsSome(parseResult)
  /\ Len(csvRows) = 2
  /\ sourceStatus(csvRows[1]) = <<>>
  /\ sourceId(csvRows[1]) \in returnedIds
  /\ sourcePrice(csvRows[2]) = JsonMalformed
  /\ returnedIds = {sourceId(csvRows[1])}
  /\ parseResult[1].stats.skippedRows = 1

\* C10: every row of the text is decoded to the cells it was written from:
\* as many fields, each with the value it had before quoting.
C10_QuotedFieldsDecoded ==
  (parsed /\ Len(csvRows) >= 1) => parseValues = csvRows

\* C11: a text with fewer than 2 non-blank lines makes parseCSV fail and
\* return nothing; every other text makes it return.
C11_NoDataFails ==
  parsed => (IsSome(parseResult) <=> Len(csvRows) >= 1)

throwingRows == {k \in DOMAIN csvRows : extractPriceThrows(sourcePrice(csvRows[k]))}

\* C12: each row whose field extraction throws adds one to errors, is not
\* returned, and the rows after it are still processed.
C12_RowErrorCounted ==
  (parsed /\ Len(csvRows) >= 1 /\ parseValues = csvRows) =>
    /\ parseResult[1].stats.errors = Cardinality(throwingRows)
    /\ \A k \in throwingRows : sourceId(csvRows[k]) \notin returnedIds
    /\ parseResult[1].stats.totalRows = Len(csvRows)

\* C14: every blank row of the text yields no record and adds one to
\* skippedRows, next to the data rows that were not returned.
C14_BlankRowsCounted ==
  (parsed /\ Len(csvRows) >= 1 /\ parseValues = csvRows) =>
    /\ Len(parseResult[1].products) <= Len(csvRows)
    /\ parseResult[1].stats.skippedRows = (Len(csvRows) - Len(parseResult[1].products)) + csvBlanks

(***************************************************************************)
(* Claims about the counters and the progress calls, under ProgressSpec    *)
(***************************************************************************)
\* what the retention rule says of a row as it was written
sourceRetainable(row) == sourceStatus(row) \in {<<>>, StrACTIVE} /\ sourcePrice(row) = JsonPrice40

retainableUpTo(n) == Cardinality({k \in 1..n : sourceRetainable(csvRows[k])})

accounted(stats) == stats.parsedProducts + stats.skippedRows = stats.totalRows /\ stats.errors <= stats.skippedRows

\* C13: at every progress call and at completion parsedProducts + skippedRows
\* is the number of rows processed and errors <= skippedRows; a row that fails
\* the retention rule adds one to skippedRows and none to errors.
C13_RowsAccounted ==
  parsed =>
    /\ accounted(parseResult[1].stats)
    /\ parseResult[1].stats.totalRows = Len(csvRows)
    /\ parseResult[1].stats.parsedProducts = Len(parseResult[1].products)
    /\ parseResult[1].stats.skippedRows = Len(csvRows) - retainableUpTo(Len(csvRows))
    /\ parseResult[1].stats.errors = 0
    /\ \A j \in DOMAIN progressCalls :
         /\ accounted(progressCalls[j].stats)
         /\ progressCalls[j].stats.skippedRows = progressCalls[j].stats.totalRows - retainableUpTo(progressCalls[j].stats.totalRows)
         /\ progressCalls[j].stats.errors = 0

\* a parse of 1000 rows, retained and DRAFT in turn, whose call after the
\* 1000th row counts 500 records and 500 skipped rows
C13_Witness ==
  /\ parsed
  /\ Len(csvRows) = PROGRESS_INTERVAL
  /\ Len(progressCalls) = 2
  /\ progressCalls[1].stats = [totalRows |-> 1000, parsedProducts |-> 500, skippedRows |-> 500, errors |-> 0]
  /\ parseResult[1].stats.skippedRows = 500

\* p is i / n * 100 rounded to the nearest integer, halves up
isRoundedPercent(p, i, n) == 2 * p * n - n <= 200 * i /\ 200 * i < 2 * p * n + n

intervalCalls == Len(csvRows) \div PROGRESS_INTERVAL

\* C15: with an observer and at least one data row, the observer is called
\* after every 1000th row with the rounded percentage and the counters so far,
\* and once more at completion with 100 and the returned counters; the
\* percentages never decrease and the row counts of the interval calls grow.
C15_ProgressCalls ==
  (parsed /\ observer /\ Len(csvRows) >= 1) =>
    /\ Len(progressCalls) = intervalCalls + 1
    /\ \A j \in 1..intervalCalls :
         /\ progressCalls[j].stats.totalRows = j * PROGRESS_INTERVAL
         /\ isRoundedPercent(progressCalls[j].percent, j * PROGRESS_INTERVAL, Len(csvRows))
         /\ progressCalls[j].stats.parsedProducts = retainableUpTo(j * PROGRESS_INTERVAL)
         /\ progressCalls[j].stats.skippedRows = j * PROGRESS_INTERVAL - retainableUpTo(j * PROGRESS_INTERVAL)
         /\ j > 1 => progressCalls[j - 1].stats.totalRows < progressCalls[j].stats.totalRows
    /\ \A j \in 1..intervalCalls : progressCalls[j].percent <= progressCalls[j + 1].percent
    /\ progressCalls[intervalCalls + 1].percent = 100
    /\ \A f \in {"totalRows", "parsedProducts", "skippedRows", "errors"} :
         progressCalls[intervalCalls + 1].stats[f] = parseResult[1].stats[f]

\* a parse of 2000 rows: calls at 50 and 100 per cent, and the last call
C15_Witness ==
  /\ parsed
  /\ observer
  /\ Len(csvRows) = 2 * PROGRESS_INTERVAL
  /\ Len(progressCalls) = 3
  /\ progressCalls[1].percent = 50
  /\ progressCalls[1].stats.totalRows = 1000
  /\ progressCalls[3].stats.totalRows = 2000

\* C16: in a parse that calls the observer, one call and only one reports
\* 100 per cent, and it is the last call.
C16_SingleFinalHundred ==
  (parsed /\ progressCalls # <<>>) =>
    {j \in DOMAIN progressCalls : progressCalls[j].percent = 100} = {Len(progressCalls)}

(***************************************************************************)
(* Claims about the limit and the default order, under Spec                *)
(***************************************************************************)
\* the lists the same call may return when no limit is given
unlimitedResults == searchProducts(products, [options EXCEPT !.limit = None])

isFirstOf(list, n, full) == Len(list) = Min({n, Len(full)}) /\ \A i \in DOMAIN list : list[i] = full[i]

\* C18: with a limit >= 0 the result is the first min(limit, n) elements of
\* a list the call returns without the limit, on every return path; its
\* length is at most the limit and limit 0 gives the empty list.
C18_LimitIsPrefix ==
  (searched /\ ~noLimit /\ options.limit[1] >= 0) =>
    /\ \E full \in unlimitedResults : isFirstOf(results, options.limit[1], full)
    /\ Len(results) <= options.limit[1]
    /\ options.limit[1] = 0 => results = <<>>

\* a query with an explicit sort and limit 1 that cuts a list of three
C18_Witness ==
  /\ searched
  /\ options.limit = Some(1)
  /\ ~queryBlank
  /\ ~sortAbsent
  /\ Len(results) = 1
  /\ \E full \in unlimitedResults : Len(full) = 3 /\ results[1] = full[1]

datesParse == \A k \in DOMAIN products : IsSome(getTime(products[k].createdAt))

\* C19: with no query and no sortBy the results are in recent-desc order,
\* the newest record first (stated for collections whose dates all parse).
C19_DefaultIsRecent ==
  (searched /\ queryBlank /\ sortAbsent /\ datesParse) =>
    \A i, j \in DOMAIN results :
      i < j => getTime(results[i].createdAt)[1] >= getTime(results[j].createdAt)[1]

(***************************************************************************)
(* Claims about the field weights, under PairSpec                          *)
(***************************************************************************)
pairToken == pairArgs.tokens[1]

\* the named field, and no other, has the token as its normalized text
singleMatch(r, name) == \A f \in FieldNames : fieldText(r, f) = pairToken <=> f = name

\* two records alike outside the two fields, each with its one exact match
pairCase ==
  /\ pairScores # None
  /\ Len(pairArgs.tokens) = 1
  /\ singleMatch(pairArgs.first, pairArgs.hi)
  /\ singleMatch(pairArgs.second, pairArgs.lo)
  /\ \A f \in FieldNames \ {pairArgs.hi, pairArgs.lo} : fieldText(pairArgs.first, f) = fieldText(pairArgs.second, f)

\* C20 as stated: of two such records, the one whose match is in the heavier
\* field (title, vendor, description, tags in this order) scores more.
C20_AsStated ==
  pairCase => pairScores[1][1] > pairScores[1][2]

\* the token is on no rung of the ladder in what each record has in the field
\* where the other record has its match
noOtherMatch ==
  /\ ladderRung(pairToken, fieldText(pairArgs.first, pairArgs.lo)) = 0
  /\ ladderRung(pairToken, fieldText(pairArgs.second, pairArgs.hi)) = 0

\* C20 amended: of two such records in which the token matches nothing in the
\* field where the other record has its match, the one whose match is in the
\* heavier field scores more.
C20_WeightOrder ==
  (pairCase /\ noOtherMatch) => pairScores[1][1] > pairScores[1][2]

\* title against vendor with nothing else matching: 30.0 against 20.0
C20_Witness ==
  /\ pairCase
  /\ noOtherMatch
  /\ pairArgs.hi = "title"
  /\ pairArgs.lo = "vendor"
  /\ pairScores = Some(<<300, 200>>)

(***************************************************************************)
(* Claims about the filter panel, under SidebarSpec                        *)
(***************************************************************************)
\* C21: what the panel hands to onFiltersChange is undefined or has an
\* active part: a vendor list that is not empty, a price range, or inStock
\* true.
C21_EmittedNormalized ==
  sidebarOp # "none" =>
    \/ sidebarFilters = None
    \/ /\ DOMAIN sidebarFilters[1] = {"vendors", "priceRange", "inStock"}
       /\ \/ sidebarFilters[1].vendors # None /\ sidebarFilters[1].vendors[1] # <<>>
          \/ sidebarFilters[1].priceRange # None
          \/ sidebarFilters[1].inStock = Some(TRUE)

\* the last vendor was taken out again and undefined was handed on
C21_Witness ==
  sidebarOp = "toggleVendor" /\ sidebarFilters = None

(***************************************************************************)
(* Claims about the search hook, under HookSpec                            *)
(***************************************************************************)
oneTimerForTypedQuery == Len(timers) <= 1 /\ \A k \in DOMAIN timers : timers[k] = typedQuery

\* debouncedQuery is changed by a timer that fires or by resetSearch, and
\* only to the query that is typed at that moment
debouncedStep ==
  debouncedQuery' # debouncedQuery =>
    /\ debouncedQuery' = typedQuery'
    /\ \/ timers # <<>> /\ timers' = Tail(timers) /\ typedQuery' = typedQuery
       \/ typedQuery' = <<>> /\ hookSortBy' = "recent-desc" /\ sidebarFilters' = None

\* C22: debouncedQuery changes only when a timer fires or on resetSearch; at
\* most one timer is pending and it is for the typed query, so a query that
\* was replaced is never searched; once the typed query stops changing,
\* debouncedQuery comes to equal it.
C22_Debounced ==
  /\ []oneTimerForTypedQuery
  /\ [][debouncedStep]_vars
  /\ \A q \in HookQueries : <>[](typedQuery = q) => <>[](debouncedQuery = q)

\* three edits were made, the last timer fired and the last query is searched
C22_Witness ==
  /\ edits = MaxEdits
  /\ typedQuery = QueryGelZinc
  /\ debouncedQuery = QueryGelZinc
  /\ timers = <<>>

orderedBySortKey(name, list) ==
  \A i, j \in DOMAIN list :
    i < j =>
      /\ keyOrdered(name, list[i], list[j])
      /\ keyOrdered(name, list[j], list[i]) => list[i].relevanceScore >= list[j].relevanceScore

\* C28: the hook always passes one of the sort options, and for a query that
\* is not blank every list it exposes is in the order of that option, the
\* relevance deciding between records of equal sort key.
C28_HookOrdered ==
  /\ hookSortBy \in SortOptions
  /\ tokenize(debouncedQuery) # <<>> => \A list \in exposedLists : orderedBySortKey(hookSortBy, list)

(***************************************************************************)
(* Claims about the cart, under CartSpec                                   *)
(***************************************************************************)
\* the text is the JSON of a list with the products and quantities of the cart
holdsCart(text, cart) ==
  /\ text # None
  /\ text[1].kind = "json"
  /\ Len(text[1].value) = Len(cart)
  /\ \A k \in DOMAIN cart :
       text[1].value[k].product.id = cart[k].product.id /\ text[1].value[k].quantity = cart[k].quantity

mountDone == mountStep \in {"mounted", "used"}

\* C23: once the effects of the mount and the render they ask for have run,
\* the cart is the one the storage held before and the storage still holds
\* it; after every later add or remove the storage holds the current cart.
C23_CartSurvivesReload ==
  /\ [](mountStep = "mounted" /\ storedAtMount # None /\ storedAtMount[1].kind = "json" =>
          holdsCart(storedAtMount, cartItems) /\ storage = storedAtMount)
  /\ [](mountStep = "used" => holdsCart(storage, cartItems))
  /\ <>mountDone

\* a stored cart of two entries is back after the mount
C23_Witness ==
  /\ mountStep = "mounted"
  /\ Len(cartItems) = 2
  /\ cartItems[2].quantity = MaxQuantity
  /\ storage = storedAtMount

RECURSIVE quantitySum(_)
quantitySum(cart) == IF cart = <<>> THEN 0 ELSE Head(cart).quantity + quantitySum(Tail(cart))

cartIds(cart) == [k \in DOMAIN cart |-> cart[k].product.id]

\* the cart without its entry at position k
withoutEntry(cart, k) == SubSeq(cart, 1, k - 1) \o SubSeq(cart, k + 1, Len(cart))

\* what the last handler made of the cart it found
lastCartStep ==
  LET op == cartOp[1]
      id == cartOp[2]
      before == cartOp[3]
      at == {k \in DOMAIN before : before[k].product.id = id}
  IN CASE op = "add" /\ at # {} ->
            /\ cartIds(cartItems) = cartIds(before)
            /\ \A k \in DOMAIN before :
                 /\ cartItems[k].product = before[k].product
                 /\ cartItems[k].quantity = before[k].quantity + (IF k \in at THEN 1 ELSE 0)
       [] op = "add" /\ at = {} ->
            /\ Len(cartItems) = Len(before) + 1
            /\ SubSeq(cartItems, 1, Len(before)) = before
            /\ cartItems[Len(cartItems)].product.id = id
            /\ cartItems[Len(cartItems)].quantity = 1
       [] op = "remove" /\ at # {} -> \E k \in at : cartItems = withoutEntry(before, k)
       [] op = "remove" /\ at = {} -> cartItems = before

\* C29: no two entries of the cart have the same product id and every
\* quantity is at least 1; an add raises the quantity of the entry by 1 or
\* appends a new entry with quantity 1, a remove deletes the whole entry,
\* the other entries and their order stay, and cartCount is the sum of the
\* quantities.
C29_CartEntries ==
  /\ \A i, j \in DOMAIN cartItems : i # j => cartItems[i].product.id # cartItems[j].product.id
  /\ \A k \in DOMAIN cartItems : cartItems[k].quantity >= 1
  /\ cartCount(cartItems) = quantitySum(cartItems)
  /\ cartOp # <<>> => lastCartStep

\* an entry of quantity 2 was removed whole, between two others
C29_Witness ==
  /\ cartOp # <<>>
  /\ cartOp[1] = "remove"
  /\ Len(cartOp[3]) = 3
  /\ cartOp[3][2].product.id = cartOp[2]
  /\ cartOp[3][2].quantity = 2
  /\ Len(cartItems) = 2

(***************************************************************************)
(* Claims about the URL, under UrlSpec                                     *)
(***************************************************************************)
\* the parts of a filters value that filter: the vendors, the price range and
\* whether only products in stock are wanted
activeParts(filters) ==
  [vendors |-> IF filters # None /\ filters[1].vendors # None THEN filters[1].vendors[1] ELSE <<>>,
   priceRange |-> IF filters # None THEN filters[1].priceRange ELSE None,
   inStock |-> filters # None /\ filters[1].inStock = Some(TRUE)]

\* C24: a fresh session opened on the URL written for a state has the same
\* query, the same sort option and the same active filters.
C24_UrlRoundTrip ==
  restored # None =>
    /\ restored[1].query = urlState.query
    /\ restored[1].sortBy = urlState.sortBy
    /\ activeParts(restored[1].filters) = activeParts(urlState.filters)

====
